---- MODULE Spec2Model ----
(***************************************************************************)
(* A model of pyll's expression graphs (src/pyll/base.py): the node        *)
(* arena, the graph algorithms dfs and toposort, and the evaluator         *)
(* rec_eval with its work stack, switch laziness, nested evaluation of     *)
(* returned graphs and memo garbage collection.                            *)
(***************************************************************************)
EXTENDS Integers, Sequences, FiniteSets, TLC

\* ------------------------------------------------------------------------
\* Bounds of the model
\* ------------------------------------------------------------------------

\* Largest number of nodes of a graph.
MaxNodes == 4

\* Literal integers range over -1 .. MaxInt.
MaxInt == 1

\* The values of max_program_len a caller passes range over 1 .. MaxProgramLen.
MaxProgramLen == 3

\* ------------------------------------------------------------------------
\* Values
\* ------------------------------------------------------------------------

\* A Python value: an int, a float (n counts halves, so 1 is 0.5 and 2 is
\* 1.0), None, an Apply object (n is the node) or the GarbageCollected class.
IntVal(i) == [k |-> "int", n |-> i]

FloatVal(h) == [k |-> "float", n |-> h]

NoneVal == [k |-> "none", n |-> 0]

ApplyVal(a) == [k |-> "apply", n |-> a]

GarbageCollected == [k |-> "gc", n |-> 0]

DEFAULT_MAX_PROGRAM_LEN == 100000

\* ------------------------------------------------------------------------
\* Nodes
\* ------------------------------------------------------------------------

\* Apply.__init__: name, pos_args (a list of nodes), named_args (a list of
\* [kw, node] pairs) and pure, False unless the caller passes it.  obj is
\* Literal._obj (None for other nodes).
Apply(name, pos, named) ==
    [name |-> name, pos_args |-> pos, named_args |-> named, obj |-> NoneVal,
     pure |-> FALSE]

\* SymbolTable._new_apply: the node of a registered symbol, with the
\* purity its registration gave.
new_apply(name, pos, named, pure) ==
    [Apply(name, pos, named) EXCEPT !.pure = pure]

Literal(v) ==
    [name |-> "literal", pos_args |-> <<>>, named_args |-> <<>>, obj |-> v,
     pure |-> TRUE]

\* Apply.inputs: the positional inputs followed by the keyword inputs.
inputs(node) ==
    node.pos_args \o [i \in 1..Len(node.named_args) |-> node.named_args[i][2]]

Range(s) == {s[i] : i \in 1..Len(s)}

\* ------------------------------------------------------------------------
\* dfs
\* ------------------------------------------------------------------------

RECURSIVE dfs_visit(_, _, _)
RECURSIVE dfs_inputs(_, _, _, _)

\* dfs with "seq.append(aa)" moved before the loop over the inputs (a
\* faulty variant).
dfs_visit_preorder(g, aa, st) ==
    IF aa \in st.seqset
    THEN st
    ELSE dfs_inputs(g, inputs(g[aa]), 1,
                    [seq |-> Append(st.seq, aa), seqset |-> st.seqset \cup {aa}])

\* One call dfs(aa, seq, seqset) on graph g; st = [seq, seqset].
dfs_visit(g, aa, st) ==
    IF aa \in st.seqset
    THEN st
    ELSE LET st1 == [seq |-> st.seq, seqset |-> st.seqset \cup {aa}]
             st2 == dfs_inputs(g, inputs(g[aa]), 1, st1)
         IN  [seq |-> Append(st2.seq, aa), seqset |-> st2.seqset]

\* The loop "for ii in aa.inputs(): dfs(ii, seq, seqset)".
dfs_inputs(g, ins, i, st) ==
    IF i > Len(ins)
    THEN st
    ELSE dfs_inputs(g, ins, i + 1, dfs_visit(g, ins[i], st))

dfs(g, aa) == dfs_visit(g, aa, [seq |-> <<>>, seqset |-> {}]).seq

\* ------------------------------------------------------------------------
\* The graphs the model evaluates
\* ------------------------------------------------------------------------

\* Node j of the (partial) graph g consumes node i as an input.
Consumes(g, j, i) == i \in Range(inputs(g[j]))

\* Node i is the selector (first positional input) of some switch of g.
IsSelector(g, i) ==
    \E j \in DOMAIN g : g[j].name = "switch" /\ g[j].pos_args[1] = i

\* Node i is the Apply object some Literal of g wraps.
IsWrapped(g, i) == \E j \in DOMAIN g : g[j].obj = ApplyVal(i)

\* Every consumer of node i is an identity node, and there is one.
OnlyIdentityConsumers(g, i) ==
    /\ \E j \in DOMAIN g : Consumes(g, j, i)
    /\ \A j \in DOMAIN g : Consumes(g, j, i) => g[j].name = "identity"

\* The values a Literal numbered i wraps, given the nodes above it: small
\* ints; for a switch selector (or a lone node) also a negative int, the
\* floats 0.5 and 1.0 and None; for an argument of identity nodes also an
\* Apply object (a graph the identity implementation then returns).
LiteralObjs(g, i) ==
    {IntVal(x) : x \in 0..MaxInt}
    \cup (IF IsSelector(g, i) \/ DOMAIN g = {}
          THEN {IntVal(-1), FloatVal(1), FloatVal(2), NoneVal}
          ELSE {})
    \cup (IF OnlyIdentityConsumers(g, i) /\ ~IsWrapped(g, i)
          THEN {ApplyVal(t) : t \in 1..(i - 1)}
          ELSE {})

\* The nodes that can be built at position i over the inputs 1..i-1:
\* Literal(obj), scope.Raise(), scope.identity(x), scope.add(x, b=y),
\* scope.switch(s, a) and scope.switch(s, a, b).
NodeChoices(g, i) ==
    LET L == 1..(i - 1) IN
    {Literal(v) : v \in LiteralObjs(g, i)}
    \cup {new_apply("Raise", <<>>, <<>>, TRUE)}
    \cup {new_apply("identity", <<x>>, <<>>, TRUE) : x \in L}
    \cup {new_apply("add", <<x>>, << <<"b", y>> >>, TRUE) : x \in L, y \in L}
    \cup {new_apply("switch", p, <<>>, TRUE) :
              p \in {q \in L \X L : q[1] # q[2]}}
    \cup {new_apply("switch", p, <<>>, TRUE) :
              p \in {q \in L \X L \X L : Cardinality(Range(q)) = 3}}

\* Node i is an input of, or wrapped by, a node of the partial graph g.
IsUsed(g, i) == \E j \in DOMAIN g : Consumes(g, j, i) \/ g[j].obj = ApplyVal(i)

\* Apply.replace_input(old_node, new_node) on node j of g: every positional
\* and keyword input that is old_node becomes new_node.
replace_input(g, j, old_node, new_node) ==
    [g EXCEPT
        ![j].pos_args =
            [ii \in 1..Len(@) |-> IF @[ii] = old_node THEN new_node ELSE @[ii]],
        ![j].named_args =
            [ii \in 1..Len(@) |->
                IF @[ii][2] = old_node THEN <<@[ii][1], new_node>> ELSE @[ii]]]

RECURSIVE ReachFrom(_, _, _)
\* The nodes reachable from the set S by one or more input edges.
ReachFrom(g, S, seen) ==
    LET nxt == UNION {Range(inputs(g[x])) : x \in S} \ seen
    IN  IF nxt = {} THEN seen ELSE ReachFrom(g, nxt, seen \cup nxt)

\* The nodes reachable from aa by zero or more input edges.
Reachable(g, aa) == {aa} \cup ReachFrom(g, {aa}, {})

\* A dependency cycle is reachable from aa.
HasCycle(g, aa) ==
    \E x \in Reachable(g, aa) : x \in ReachFrom(g, {x}, {})

Acyclic(g, aa) == ~HasCycle(g, aa)

\* A graph has an expansion when some Literal wraps an Apply object.
HasExpansion(g) == \E j \in DOMAIN g : g[j].obj.k = "apply"

\* ------------------------------------------------------------------------
\* toposort
\* ------------------------------------------------------------------------

\* "G.add_edges_from([(n_in, node) for n_in in node.inputs()])" for every
\* node of dfs(expr): the edges of G.
GraphEdges(g, expr) ==
    UNION {{<<n_in, node>> : n_in \in Range(inputs(g[node]))} :
              node \in Range(dfs(g, expr))}

\* The nodes of G: add_edges_from adds the end points of the edges only.
GraphNodes(g, expr) ==
    {e[1] : e \in GraphEdges(g, expr)} \cup {e[2] : e \in GraphEdges(g, expr)}

\* topological_sort without the cycle test: any order of the nodes of G (a
\* faulty variant).
topological_sort_unchecked(V, E) ==
    {o \in [1..Cardinality(V) -> V] :
        \A i, j \in 1..Cardinality(V) : i # j => o[i] # o[j]}

\* nx.topological_sort(G): the orders of the nodes of G in which every edge
\* goes forward; there is none when G has a cycle (NetworkXUnfeasible).
topological_sort(V, E) ==
    {o \in [1..Cardinality(V) -> V] :
        /\ \A i, j \in 1..Cardinality(V) : i # j => o[i] # o[j]
        /\ \A i, j \in 1..Cardinality(V) : <<o[i], o[j]>> \in E => i < j}

\* toposort(expr): the outcomes [error, order] of the call.
toposort(g, expr) ==
    LET V == GraphNodes(g, expr)
        E == GraphEdges(g, expr)
    IN  IF topological_sort(V, E) = {}
        THEN {[error |-> "NetworkXUnfeasible", order |-> <<>>]}
        ELSE {IF ord = <<>>
              THEN [error |-> "IndexError", order |-> <<>>]
              ELSE IF ord[Len(ord)] # expr
              THEN [error |-> "AssertionError", order |-> <<>>]
              ELSE [error |-> "none", order |-> ord] :
                 ord \in topological_sort(V, E)}

\* ------------------------------------------------------------------------
\* Implementations (scope._impls)
\* ------------------------------------------------------------------------

Ret(v) == [t |-> "ret", v |-> v]

Raised == [t |-> "raise", v |-> NoneVal]

\* Python's binding of *args and **kwargs to the parameter list params: ok
\* when every parameter gets exactly one value.
BindOk(params, args, kwargs) ==
    /\ Len(args) <= Len(params)
    /\ DOMAIN kwargs = {params[i] : i \in (Len(args) + 1)..Len(params)}

Bound(params, args, kwargs, i) ==
    IF i <= Len(args) THEN args[i] ELSE kwargs[params[i]]

\* a + b: int + int is an int, a float operand makes a float; None and a
\* class object raise TypeError.
add_impl(a, b) ==
    CASE a.k = "int" /\ b.k = "int" -> Ret(IntVal(a.n + b.n))
      [] a.k = "int" /\ b.k = "float" -> Ret(FloatVal(2 * a.n + b.n))
      [] a.k = "float" /\ b.k = "int" -> Ret(FloatVal(a.n + 2 * b.n))
      [] a.k = "float" /\ b.k = "float" -> Ret(FloatVal(a.n + b.n))
      [] a.k \in {"none", "gc"} \/ b.k \in {"none", "gc"} -> Raised

\* scope._impls[name](*args, **kwargs) for identity, add and Raise.
Impl(name, args, kwargs) ==
    CASE name = "identity" ->
            IF BindOk(<<"obj">>, args, kwargs)
            THEN Ret(Bound(<<"obj">>, args, kwargs, 1))
            ELSE Raised
      [] name = "add" ->
            IF BindOk(<<"a", "b">>, args, kwargs)
            THEN add_impl(Bound(<<"a", "b">>, args, kwargs, 1),
                          Bound(<<"a", "b">>, args, kwargs, 2))
            ELSE Raised
      [] name = "Raise" -> Raised
      [] name = "getitem" ->
            IF BindOk(<<"obj", "idx">>, args, kwargs)
            THEN LET obj == Bound(<<"obj", "idx">>, args, kwargs, 1)
                     idx == Bound(<<"obj", "idx">>, args, kwargs, 2)
                 IN  IF obj.k = "list" /\ idx.k = "int"
                        /\ idx.n + 1 \in DOMAIN obj.n
                     THEN Ret(obj.n[idx.n + 1])
                     ELSE Raised
            ELSE Raised
      [] name = "uniform" -> Raised

\* ------------------------------------------------------------------------
\* rec_eval
\* ------------------------------------------------------------------------

\* int(v) succeeds on ints and floats only.
IntOk(v) == v.k \in {"int", "float"}

\* int(v): a float (counted in halves) is truncated toward zero.
IntOf(v) ==
    IF v.k = "int" THEN v.n
    ELSE IF v.n >= 0 THEN v.n \div 2 ELSE -((-v.n) \div 2)

\* "switch_i != int(switch_i)" without the sign test (a faulty variant).
BadSwitchPosNoSign(v) ==
    IF v.k = "int" THEN v.n # IntOf(v) ELSE v.n # 2 * IntOf(v)

\* "switch_i != int(switch_i) or switch_i < 0"
BadSwitchPos(v) ==
    \/ (IF v.k = "int" THEN v.n # IntOf(v) ELSE v.n # 2 * IntOf(v))
    \/ v.n < 0

\* The clients map built from the positional inputs only (a faulty variant).
ClientsPosArgs(g, node) ==
    LET seq == Range(dfs(g, node))
    IN  [ii \in seq |-> {aa \in seq : ii \in Range(g[aa].pos_args)}]

\* The clients map of one call: for every node of dfs(node), the nodes of
\* dfs(node) that have it as an input.
Clients(g, node) ==
    LET seq == Range(dfs(g, node))
    IN  [ii \in seq |-> {aa \in seq : ii \in Range(inputs(g[aa]))}]

RECURSIVE collect_eager(_, _, _, _)
\* The loop of set_memo without the test of the clients: every input gets
\* the GarbageCollected entry (a faulty variant).
collect_eager(memo, clients, ins, i) ==
    IF i > Len(ins)
    THEN memo
    ELSE collect_eager((ins[i] :> GarbageCollected) @@ memo, clients, ins,
                       i + 1)

RECURSIVE collect(_, _, _, _)
\* The loop of set_memo over k.inputs(): an input all of whose clients are
\* in the memo gets the GarbageCollected entry.
collect(memo, clients, ins, i) ==
    IF i > Len(ins)
    THEN memo
    ELSE LET ii == ins[i]
             m2 == IF clients[ii] \subseteq DOMAIN memo
                   THEN (ii :> GarbageCollected) @@ memo
                   ELSE memo
         IN  collect(m2, clients, ins, i + 1)

\* set_memo(k, v) in frame fr: [ok, memo]; ok is FALSE when the assertion
\* "v is not GarbageCollected" fails.
set_memo(g, fr, k, v) ==
    IF fr.memo_gc
    THEN IF v = GarbageCollected
         THEN [ok |-> FALSE, memo |-> fr.memo]
         ELSE [ok |-> TRUE,
               memo |-> collect((k :> v) @@ fr.memo, fr.clients,
                                inputs(g[k]), 1)]
    ELSE [ok |-> TRUE, memo |-> (k :> v) @@ fr.memo]

\* The state of one call of rec_eval at its entry to the loop.  calls counts
\* the invocations of each node's implementation made by this call.
NewFrame(g, expr, deepcopy_inputs, memo, max_program_len, memo_gc) ==
    [topnode |-> expr,
     node |-> expr,
     memo |-> memo,
     clients |-> IF memo_gc THEN Clients(g, expr) ELSE <<>>,
     todo |-> <<expr>>,
     max_program_len |-> max_program_len,
     memo_gc |-> memo_gc,
     deepcopy_inputs |-> deepcopy_inputs,
     calls |-> [x \in DOMAIN g |-> 0]]

\* ------------------------------------------------------------------------
\* clone and clone_merge
\* ------------------------------------------------------------------------

\* clone_from_inputs that passes every input positionally, the keywords
\* lost (a faulty variant).
clone_from_inputs_positional(node, ins) ==
    IF node.name = "literal"
    THEN Literal(node.obj)
    ELSE Apply(node.name, ins, <<>>)

\* Apply.clone_from_inputs(inputs) and Literal.clone_from_inputs: a new
\* node of the same class and name over the given inputs, the keywords
\* kept; pure is not passed on, so the clone of an Apply has the default.
clone_from_inputs(node, ins) ==
    IF node.name = "literal"
    THEN Literal(node.obj)
    ELSE Apply(node.name,
               SubSeq(ins, 1, Len(node.pos_args)),
               [ii \in 1..Len(node.named_args) |->
                   <<node.named_args[ii][1], ins[Len(node.pos_args) + ii]>>])

\* "new_inputs = [memo[arg] for arg in node.inputs()]; new_node =
\* node.clone_from_inputs(new_inputs); memo[node] = new_node" on the state
\* st = [g, memo, error] of a clone loop.
clone_node(st, node) ==
    IF ~(Range(inputs(st.g[node])) \subseteq DOMAIN st.memo)
    THEN [st EXCEPT !.error = "KeyError"]
    ELSE [st EXCEPT
             !.g = Append(@, clone_from_inputs(
                                st.g[node],
                                [ii \in 1..Len(inputs(st.g[node])) |->
                                    st.memo[inputs(st.g[node])[ii]]])),
             !.memo = @ @@ (node :> Len(st.g) + 1)]

RECURSIVE clone_loop(_, _, _)
\* "for node in nodes: if node not in memo: ..." from position i on.
clone_loop(seq, i, st) ==
    IF i > Len(seq) \/ st.error # "none"
    THEN st
    ELSE clone_loop(seq, i + 1,
                    IF seq[i] \in DOMAIN st.memo
                    THEN st
                    ELSE clone_node(st, seq[i]))

\* The outcome of a clone call that ended in the state st: what it
\* returns, the arena and the caller's memo dictionary after it.
CloneOutcome(st, expr) ==
    [g |-> st.g,
     memo |-> st.memo,
     error |-> st.error,
     rval |-> IF st.error = "none" THEN ApplyVal(st.memo[expr]) ELSE NoneVal]

\* clone that starts from an empty memo whatever it is given (a faulty
\* variant).
clone_ignoring_memo(g, expr, memo) ==
    CloneOutcome(clone_loop(dfs(g, expr), 1,
                            [g |-> g, memo |-> <<>>, error |-> "none"]),
                 expr)

\* clone(expr, memo)
clone(g, expr, memo) ==
    CloneOutcome(clone_loop(dfs(g, expr), 1,
                            [g |-> g, memo |-> memo, error |-> "none"]),
                 expr)

\* Python's == on the values Literals wrap: numbers compare by value (1 ==
\* 1.0), anything else is equal to itself only.
PyEq(a, b) ==
    IF a.k \in {"int", "float"} /\ b.k \in {"int", "float"}
    THEN (IF a.k = "int" THEN 2 * a.n ELSE a.n)
            = (IF b.k = "int" THEN 2 * b.n ELSE b.n)
    ELSE a = b

\* The test of clone_merge that the earlier node node_jj stands for
\* node_ii: the same name and, for Literals, merge_literals and equal
\* values; for other nodes the same positional and keyword inputs, node
\* for node.
Mergeable(g, node_ii, node_jj, merge_literals) ==
    /\ g[node_ii].name = g[node_jj].name
    /\ IF g[node_ii].name = "literal"
       THEN merge_literals /\ PyEq(g[node_ii].obj, g[node_jj].obj)
       ELSE /\ g[node_ii].pos_args = g[node_jj].pos_args
            /\ g[node_ii].named_args = g[node_jj].named_args

\* "if node_ii.pure: for jj in range(ii): ..." : the positions jj < ii of
\* the nodes that can stand for nodes[ii].
MergeCandidates(g, seq, ii, merge_literals) ==
    IF g[seq[ii]].pure
    THEN {jj \in 1..(ii - 1) : Mergeable(g, seq[ii], seq[jj], merge_literals)}
    ELSE {}

\* The smallest element of a non-empty set of numbers.
Min(S) == CHOOSE x \in S : \A y \in S : x <= y

RECURSIVE clone_merge_loop(_, _, _, _)
\* "for ii, node_ii in enumerate(nodes): ..." from position ii on:
\* new_ii is the first earlier node that can stand for node_ii (that node
\* itself), else a clone of node_ii.
clone_merge_loop(seq, ii, st, merge_literals) ==
    IF ii > Len(seq) \/ st.error # "none"
    THEN st
    ELSE clone_merge_loop(
            seq, ii + 1,
            IF seq[ii] \in DOMAIN st.memo
            THEN st
            ELSE IF MergeCandidates(st.g, seq, ii, merge_literals) # {}
            THEN [st EXCEPT !.memo = @ @@
                    (seq[ii] :>
                        seq[Min(MergeCandidates(st.g, seq, ii,
                                                merge_literals))])]
            ELSE clone_node(st, seq[ii]),
            merge_literals)

\* clone_merge(expr, memo, merge_literals)
clone_merge(g, expr, memo, merge_literals) ==
    CloneOutcome(clone_merge_loop(dfs(g, expr), 1,
                                  [g |-> g, memo |-> memo, error |-> "none"],
                                  merge_literals),
                 expr)

\* ------------------------------------------------------------------------
\* replace_input and replace_implicit_stochastic_nodes
\* ------------------------------------------------------------------------

\* The positions replace_input returns when only the positional inputs are
\* reported (a faulty variant).
replace_input_rval_pos_only(node, old_node) ==
    SelectSeq([ii \in 1..Len(node.pos_args) |-> ii - 1],
              LAMBDA ii : node.pos_args[ii + 1] = old_node)

\* The list Apply.replace_input(old_node, new_node) returns: the indices
\* (from 0) of the positional inputs that are old_node, then those of the
\* keyword inputs, counted on from len(pos_args).  A Literal has no inputs
\* and returns [].
replace_input_rval(node, old_node) ==
    SelectSeq([ii \in 1..Len(node.pos_args) |-> ii - 1],
              LAMBDA ii : node.pos_args[ii + 1] = old_node)
    \o SelectSeq([ii \in 1..Len(node.named_args) |->
                     ii - 1 + Len(node.pos_args)],
                 LAMBDA ii :
                     node.named_args[ii + 1 - Len(node.pos_args)][2] = old_node)

\* The names decorated with implicit_stochastic, as far as the model uses
\* them.
implicit_stochastic_symbols == {"uniform"}

\* The string 'uniform' and a random number generator, as wrapped values.
StrVal == [k |-> "str", n |-> 0]

RngVal == [k |-> "rng", n |-> 0]

RECURSIVE replace_in_clients(_, _, _, _, _)
\* "for client in nodes[ii+1:]: client.replace_input(orig, draw)"
replace_in_clients(g, seq, i, orig, draw) ==
    IF i > Len(seq)
    THEN g
    ELSE replace_in_clients(replace_input(g, seq[i], orig, draw),
                            seq, i + 1, orig, draw)

\* The body of the loop for a stochastic node orig at position ii, with
\* the clients left as they are (a faulty variant).
replace_stochastic_unwired(st, seq, ii) ==
    LET orig == seq[ii]
        n == Len(st.g)
        obj == [new_apply("draw_rng", <<st.lrng, n + 1>>, <<>>, FALSE) EXCEPT
                   !.pos_args = @ \o st.g[orig].pos_args,
                   !.named_args = @ \o st.g[orig].named_args]
        g1 == st.g \o <<Literal(StrVal), obj,
                        Literal(IntVal(0)),
                        new_apply("getitem", <<n + 2, n + 3>>, <<>>, TRUE),
                        Literal(IntVal(1)),
                        new_apply("getitem", <<n + 2, n + 5>>, <<>>, TRUE)>>
    IN  [g |-> g1,
         expr |-> IF st.expr = orig THEN n + 4 ELSE st.expr,
         lrng |-> n + 6,
         new_lrng |-> n + 6,
         draws |-> st.draws @@ (orig :> n + 4)]

\* The replacement of a stochastic node that leaves lrng as it was, so that
\* every draw takes the seed (a faulty variant).
replace_stochastic_unthreaded(st, seq, ii) ==
    LET orig == seq[ii]
        n == Len(st.g)
        obj == [new_apply("draw_rng", <<st.lrng, n + 1>>, <<>>, FALSE) EXCEPT
                   !.pos_args = @ \o st.g[orig].pos_args,
                   !.named_args = @ \o st.g[orig].named_args]
        g1 == st.g \o <<Literal(StrVal), obj,
                        Literal(IntVal(0)),
                        new_apply("getitem", <<n + 2, n + 3>>, <<>>, TRUE),
                        Literal(IntVal(1)),
                        new_apply("getitem", <<n + 2, n + 5>>, <<>>, TRUE)>>
    IN  [g |-> replace_in_clients(g1, seq, ii + 1, orig, n + 4),
         expr |-> IF st.expr = orig THEN n + 4 ELSE st.expr,
         lrng |-> st.lrng,
         new_lrng |-> n + 6,
         draws |-> st.draws @@ (orig :> n + 4)]

\* The body of the loop for a stochastic node orig at position ii of
\* nodes: obj = scope.draw_rng(lrng, orig.name) with the inputs of orig
\* appended; "draw, new_lrng = obj" builds getitem(obj, 0) and
\* getitem(obj, 1); every later node of nodes has orig replaced by draw.
\* draws records which draw stands for which orig.
replace_stochastic(st, seq, ii) ==
    LET orig == seq[ii]
        n == Len(st.g)
        obj == [new_apply("draw_rng", <<st.lrng, n + 1>>, <<>>, FALSE) EXCEPT
                   !.pos_args = @ \o st.g[orig].pos_args,
                   !.named_args = @ \o st.g[orig].named_args]
        g1 == st.g \o <<Literal(StrVal), obj,
                        Literal(IntVal(0)),
                        new_apply("getitem", <<n + 2, n + 3>>, <<>>, TRUE),
                        Literal(IntVal(1)),
                        new_apply("getitem", <<n + 2, n + 5>>, <<>>, TRUE)>>
    IN  [g |-> replace_in_clients(g1, seq, ii + 1, orig, n + 4),
         expr |-> IF st.expr = orig THEN n + 4 ELSE st.expr,
         lrng |-> n + 6,
         new_lrng |-> n + 6,
         draws |-> st.draws @@ (orig :> n + 4)]

RECURSIVE replace_stochastic_loop(_, _, _)
\* "for ii, orig in enumerate(nodes): if orig.name in
\* implicit_stochastic_symbols: ..."
replace_stochastic_loop(st, seq, ii) ==
    IF ii > Len(seq)
    THEN st
    ELSE replace_stochastic_loop(
            IF st.g[seq[ii]].name \in implicit_stochastic_symbols
            THEN replace_stochastic(st, seq, ii)
            ELSE st,
            seq, ii + 1)

\* replace_implicit_stochastic_nodes(expr, rng) for an rng that is not a
\* node: lrng = as_apply(rng) is a new Literal.  new_lrng is bound by the
\* first stochastic node only, so "return expr, new_lrng" raises
\* UnboundLocalError when the graph has none.
replace_implicit_stochastic_nodes(g, expr) ==
    LET st == replace_stochastic_loop(
                  [g |-> Append(g, Literal(RngVal)),
                   expr |-> expr,
                   lrng |-> Len(g) + 1,
                   new_lrng |-> 0,
                   draws |-> <<>>],
                  dfs(g, expr), 1)
    IN  IF st.new_lrng = 0
        THEN [g |-> st.g, error |-> "UnboundLocalError", expr |-> 0,
              new_lrng |-> 0, draws |-> st.draws]
        ELSE [g |-> st.g, error |-> "none", expr |-> st.expr,
              new_lrng |-> st.new_lrng, draws |-> st.draws]

\* ------------------------------------------------------------------------
\* The implementations the vectorizer uses (annotate.py)
\* ------------------------------------------------------------------------

\* A Python list (or array) value; n is the sequence of its items.
ListVal(items) == [k |-> "list", n |-> items]

\* The outcome of a call: the value returned, or the name of the exception.
Returns(v) == [error |-> "none", v |-> v]

Raises(e) == [error |-> e, v |-> NoneVal]

RECURSIVE vchoice_split_unchecked_loop(_, _, _, _, _)
\* The loop of vchoice_split over zip(idxs, choices), which stops at the
\* end of the shorter list.
vchoice_split_unchecked_loop(idxs, choices, n_options, p, acc) ==
    IF p > Len(idxs) \/ p > Len(choices)
    THEN Returns(ListVal([j \in 1..n_options |-> ListVal(acc[j])]))
    ELSE LET cc == choices[p].n IN
         IF cc >= n_options \/ cc < -n_options
         THEN Raises("IndexError")
         ELSE LET j == IF cc >= 0 THEN cc + 1 ELSE cc + n_options + 1 IN
              vchoice_split_unchecked_loop(
                  idxs, choices, n_options, p + 1,
                  [acc EXCEPT ![j] = Append(@, idxs[p])])

\* vchoice_split without the test of the two lengths (a faulty variant).
vchoice_split_unchecked(idxs, choices, n_options) ==
    vchoice_split_unchecked_loop(idxs.n, choices.n, n_options, 1,
                                 [j \in 1..n_options |-> <<>>])

RECURSIVE vchoice_split_loop(_, _, _, _, _)
\* "for ii, cc in zip(idxs, choices): rval[cc].append(ii)" from position
\* p on; rval[cc] with a negative cc counts from the end of rval and an
\* index outside -n_options .. n_options - 1 raises IndexError.
vchoice_split_loop(idxs, choices, n_options, p, acc) ==
    IF p > Len(idxs) \/ p > Len(choices)
    THEN Returns(ListVal([j \in 1..n_options |-> ListVal(acc[j])]))
    ELSE LET cc == choices[p].n IN
         IF cc >= n_options \/ cc < -n_options
         THEN Raises("IndexError")
         ELSE LET j == IF cc >= 0 THEN cc + 1 ELSE cc + n_options + 1 IN
              vchoice_split_loop(idxs, choices, n_options, p + 1,
                                 [acc EXCEPT ![j] = Append(@, idxs[p])])

\* vchoice_split(idxs, choices, n_options) on two lists.
vchoice_split(idxs, choices, n_options) ==
    IF Len(idxs.n) # Len(choices.n)
    THEN Raises("ValueError")
    ELSE vchoice_split_loop(idxs.n, choices.n, n_options, 1,
                            [j \in 1..n_options |-> <<>>])

\* repeat(n_times, obj): [obj] * n_times
repeat(n_times, obj) == Returns(ListVal([nn \in 1..n_times |-> obj]))

\* a + b of Python where lists may occur: two lists are concatenated, a
\* list and a number raise TypeError, two numbers are added.
py_add(a, b) ==
    IF a.k = "list" /\ b.k = "list"
    THEN Returns(ListVal(a.n \o b.n))
    ELSE IF a.k = "list" \/ b.k = "list"
    THEN Raises("TypeError")
    ELSE IF add_impl(a, b).t = "ret"
    THEN Returns(add_impl(a, b).v)
    ELSE Raises("TypeError")

\* scope._impls[cmd](*args, **kwargs) for identity and add, on values that
\* may be lists.
call_impl(cmd, args, kwargs) ==
    CASE cmd = "identity" ->
            IF BindOk(<<"obj">>, args, kwargs)
            THEN Returns(Bound(<<"obj">>, args, kwargs, 1))
            ELSE Raises("TypeError")
      [] cmd = "add" ->
            IF BindOk(<<"a", "b">>, args, kwargs)
            THEN py_add(Bound(<<"a", "b">>, args, kwargs, 1),
                        Bound(<<"a", "b">>, args, kwargs, 2))
            ELSE Raises("TypeError")
      [] OTHER -> Raises("KeyError")

\* len(arg) != n_times for a positional argument of Nmap; len of a value
\* that is not a list raises TypeError.
NmapArgError(n_times, args) ==
    IF \E ii \in DOMAIN args : args[ii].k # "list"
    THEN "TypeError"
    ELSE IF \E ii \in DOMAIN args : Len(args[ii].n) # n_times
    THEN "ValueError"
    ELSE "none"

\* "for kw, arg in kwargs:" iterates over the KEYS of the dict and unpacks
\* each key, a string, into kw and arg: a key that does not have exactly
\* two characters raises ValueError, and for a key of two characters arg
\* is one character, of length 1.
NmapKwargError(n_times, kwargs) ==
    IF \E kw \in DOMAIN kwargs : Len(kw) # 2 \/ n_times # 1
    THEN "ValueError"
    ELSE "none"

\* Nmap(n_times, cmd, *args, **kwargs): in the loop over range(n_times)
\* the per-sample args_nn and kwargs_nn are built and not used, the call
\* is f(*args, **kwargs) on the whole lists.
Nmap(n_times, cmd, args, kwargs) ==
    IF NmapArgError(n_times, args) # "none"
    THEN Raises(NmapArgError(n_times, args))
    ELSE IF NmapKwargError(n_times, kwargs) # "none"
    THEN Raises(NmapKwargError(n_times, kwargs))
    ELSE IF cmd \notin {"identity", "add"}
    THEN Raises("KeyError")
    ELSE IF n_times = 0
    THEN Returns(ListVal(<<>>))
    ELSE IF call_impl(cmd, args, kwargs).error # "none"
    THEN Raises(call_impl(cmd, args, kwargs).error)
    ELSE Returns(ListVal([nn \in 1..n_times |->
                            call_impl(cmd, args, kwargs).v]))

RECURSIVE SortedSeq(_)
\* The integers of the set S in increasing order.
SortedSeq(S) ==
    IF S = {}
    THEN <<>>
    ELSE LET m == CHOOSE x \in S : \A y \in S : x <= y
         IN  <<m>> \o SortedSeq(S \ {m})

\* array_union(a, b): np.asarray(sorted(set(a) | set(b)))
array_union(a, b) ==
    LET S == {a.n[p].n : p \in DOMAIN a.n} \cup {b.n[p].n : p \in DOMAIN b.n}
    IN  Returns(ListVal([p \in 1..Cardinality(S) |-> IntVal(SortedSeq(S)[p])]))

\* ------------------------------------------------------------------------
\* VectorizeHelper and vectorize (annotate.py)
\* ------------------------------------------------------------------------

\* The name of an operation as a value: the string a Literal wraps.
NameVal(name) == [k |-> "str", n |-> name]

\* A faulty variant of merge: the index set of the last demand replaces the
\* one recorded before.
vh_merge_overwriting(st, idxs, node) ==
    [st EXCEPT !.idxs_memo = (node :> idxs) @@ @]

\* VectorizeHelper.merge(idxs, node)
vh_merge(st, idxs, node) ==
    IF node \in DOMAIN st.idxs_memo
    THEN [st EXCEPT
            !.g = Append(@, new_apply("array_union",
                                      <<idxs, st.idxs_memo[node]>>, <<>>,
                                      FALSE)),
            !.idxs_memo = (node :> (Len(st.g) + 1)) @@ @]
    ELSE [st EXCEPT !.idxs_memo = @ @@ (node :> idxs)]

RECURSIVE vh_merge_options(_, _, _, _)
\* "for ii, arg in enumerate(node.pos_args): self.merge(sub_idxs[ii], arg)"
\* from option ii on; sub_idxs[ii] is scope.getitem(sub_idxs, ii).
vh_merge_options(st, node, sub_idxs, ii) ==
    IF ii > Len(st.g[node].pos_args)
    THEN st
    ELSE LET n == Len(st.g)
             st1 == [st EXCEPT !.g = @ \o
                        <<Literal(IntVal(ii - 1)),
                          new_apply("getitem", <<sub_idxs, n + 1>>, <<>>,
                                    TRUE)>>]
         IN  vh_merge_options(vh_merge(st1, n + 2, st.g[node].pos_args[ii]),
                              node, sub_idxs, ii + 1)

RECURSIVE vh_merge_inputs(_, _, _, _)
\* "for arg in node.inputs(): self.merge(node_idxs, arg)"
vh_merge_inputs(st, ins, node_idxs, ii) ==
    IF ii > Len(ins)
    THEN st
    ELSE vh_merge_inputs(vh_merge(st, node_idxs, ins[ii]), ins, node_idxs,
                         ii + 1)

\* The body of the loop of build_idxs for a one_of node: choices =
\* scope.randint(n_options, size=scope.len(node_idxs)) becomes the lifted
\* value of the node, and option ii gets item ii of
\* scope.vchoice_split(node_idxs, choices, n_options).
build_idxs_one_of(st, node) ==
    LET n == Len(st.g)
        node_idxs == st.idxs_memo[node]
        n_options == Len(st.g[node].pos_args)
        st1 == [st EXCEPT
                  !.g = @ \o
                     <<new_apply("len", <<node_idxs>>, <<>>, TRUE),
                       Literal(IntVal(n_options)),
                       new_apply("randint", <<n + 2>>, <<<<"size", n + 1>>>>,
                                 FALSE),
                       Literal(IntVal(n_options)),
                       new_apply("vchoice_split",
                                 <<node_idxs, n + 3, n + 4>>, <<>>, FALSE)>>,
                  !.vals_memo = (node :> (n + 3)) @@ @]
    IN  vh_merge_options(st1, node, n + 5, 1)

RECURSIVE build_idxs_loop(_, _, _)
\* "for node in reversed(self.dfs_nodes): ..." from position p down.
build_idxs_loop(st, seq, p) ==
    IF p < 1 \/ st.error # "none"
    THEN st
    ELSE IF seq[p] \notin DOMAIN st.idxs_memo
    THEN [st EXCEPT !.error = "KeyError"]
    ELSE build_idxs_loop(
            IF st.g[seq[p]].name = "one_of"
            THEN build_idxs_one_of(st, seq[p])
            ELSE vh_merge_inputs(st, inputs(st.g[seq[p]]),
                                 st.idxs_memo[seq[p]], 1),
            seq, p - 1)

RECURSIVE vh_replace_inputs(_, _, _, _, _)
\* "for arg in node.inputs(): vnode.replace_input(arg, self.vals_memo[arg])"
vh_replace_inputs(g, vnode, ins, vals_memo, ii) ==
    IF ii > Len(ins)
    THEN g
    ELSE vh_replace_inputs(
            replace_input(g, vnode, ins[ii], vals_memo[ins[ii]]),
            vnode, ins, vals_memo, ii + 1)

\* The body of the loop of build_vals for a node without a lifted value.
build_vals_node(st, node) ==
    LET n == Len(st.g)
        n_times == new_apply("len", <<st.idxs_memo[node]>>, <<>>, TRUE)
    IN  IF st.g[node].name = "literal"
        THEN [st EXCEPT
                !.g = @ \o <<n_times,
                             new_apply("repeat", <<n + 1, node>>, <<>>, FALSE)>>,
                !.vals_memo = @ @@ (node :> (n + 2))]
        ELSE IF \E arg \in Range(inputs(st.g[node])) :
                   arg \notin DOMAIN st.vals_memo
        THEN [st EXCEPT !.error = "KeyError"]
        ELSE [st EXCEPT
                !.g = vh_replace_inputs(
                         @ \o <<n_times,
                                Literal(NameVal(st.g[node].name)),
                                [new_apply("Nmap", <<n + 1, n + 2>>, <<>>,
                                           FALSE) EXCEPT
                                    !.pos_args = @ \o st.g[node].pos_args,
                                    !.named_args = @ \o st.g[node].named_args]>>,
                         n + 3, inputs(st.g[node]), st.vals_memo, 1),
                !.vals_memo = @ @@ (node :> (n + 3))]

RECURSIVE build_vals_loop(_, _, _)
\* "for node in self.dfs_nodes: if node not in self.vals_memo: ..."
build_vals_loop(st, seq, p) ==
    IF p > Len(seq) \/ st.error # "none"
    THEN st
    ELSE build_vals_loop(
            IF seq[p] \in DOMAIN st.vals_memo
            THEN st
            ELSE build_vals_node(st, seq[p]),
            seq, p + 1)

\* vectorize(expr, N): the graph after build_idxs and build_vals, the two
\* memos, and rval = vh.vals_memo[expr].
vectorize(g, expr, N) ==
    LET n == Len(g)
        st0 == [g |-> g \o <<Literal(IntVal(N)),
                              new_apply("range", <<n + 1>>, <<>>, TRUE)>>,
                idxs_memo |-> (expr :> (n + 2)),
                vals_memo |-> <<>>,
                error |-> "none"]
        st1 == build_idxs_loop(st0, dfs(g, expr), Len(dfs(g, expr)))
        st2 == build_vals_loop(st1, dfs(g, expr), 1)
    IN  [g |-> st2.g,
         idxs_memo |-> st2.idxs_memo,
         vals_memo |-> st2.vals_memo,
         error |-> st2.error,
         rval |-> IF st2.error = "none" THEN st2.vals_memo[expr] ELSE 0]

\* The evaluation of one node of a vectorized graph from the values vs of
\* its inputs; stream is the sequence of integers the generator gives the
\* node when it is a randint node.  An input that failed makes the node
\* fail in the same way.
node_value(node, vs, stream) ==
    LET pos == [ii \in DOMAIN node.pos_args |-> vs[node.pos_args[ii]]]
        kws == {node.named_args[ii][1] : ii \in DOMAIN node.named_args}
        kwv == [w \in kws |->
                  vs[node.named_args[CHOOSE ii \in DOMAIN node.named_args :
                                        node.named_args[ii][1] = w][2]]]
        failed == {ii \in Range(inputs(node)) : vs[ii].error # "none"}
        a(ii) == pos[ii].v
    IN  IF failed # {}
        THEN Raises(vs[CHOOSE ii \in failed : \A jj \in failed : ii <= jj].error)
        ELSE CASE node.name = "literal" -> Returns(node.obj)
               [] node.name = "range" ->
                     IF a(1).k = "int"
                     THEN Returns(ListVal([p \in 1..a(1).n |-> IntVal(p - 1)]))
                     ELSE Raises("TypeError")
               [] node.name = "len" ->
                     IF a(1).k = "list"
                     THEN Returns(IntVal(Len(a(1).n)))
                     ELSE Raises("TypeError")
               [] node.name = "randint" ->
                     Returns(ListVal([p \in 1..kwv["size"].v.n |->
                                         IntVal(stream[p])]))
               [] node.name = "vchoice_split" ->
                     vchoice_split(a(1), a(2), a(3).n)
               [] node.name = "getitem" ->
                     IF a(1).k = "list" /\ a(2).n \in 0..(Len(a(1).n) - 1)
                     THEN Returns(a(1).n[a(2).n + 1])
                     ELSE Raises("IndexError")
               [] node.name = "array_union" -> array_union(a(1), a(2))
               [] node.name = "repeat" -> repeat(a(1).n, a(2))
               [] node.name = "Nmap" ->
                     Nmap(a(1).n, a(2).n,
                          [ii \in 1..(Len(pos) - 2) |-> a(ii + 2)],
                          [w \in kws |-> kwv[w].v])
               [] OTHER ->
                     call_impl(node.name, [ii \in DOMAIN pos |-> a(ii)],
                               [w \in kws |-> kwv[w].v])

RECURSIVE graph_values(_, _, _, _)
\* The values of the nodes i .. Len(g) of a graph whose every node comes
\* after its inputs, given the values vs of the nodes before i: what
\* rec_eval computes for each of them.  streams gives the integers drawn
\* for each randint node.
graph_values(g, streams, vs, i) ==
    IF i > Len(g)
    THEN vs
    ELSE graph_values(
            g, streams,
            Append(vs, node_value(g[i], vs,
                                  IF i \in DOMAIN streams
                                  THEN streams[i] ELSE <<>>)),
            i + 1)

\* ------------------------------------------------------------------------
\* Apply.eval and Literal.eval
\* ------------------------------------------------------------------------

\* The sum of two vectors of counts.
AddCalls(c1, c2) == [x \in DOMAIN c1 |-> c1[x] + c2[x]]

RECURSIVE eval_node(_, _)
RECURSIVE eval_inputs(_, _, _, _)
\* "[a.eval() for a in ...]" over the inputs ins from position i on: each
\* input is evaluated by a call of eval without a memo argument, so with
\* a new empty memo; an input that raises ends the evaluation.  acc holds
\* the values so far and the invocations made so far.
eval_inputs(g, ins, i, acc) ==
    IF i > Len(ins) \/ acc.error # "none"
    THEN acc
    ELSE LET r == eval_node(g, ins[i])
         IN  eval_inputs(g, ins, i + 1,
                         [error |-> r.error,
                          vals |-> Append(acc.vals, r.v),
                          calls |-> AddCalls(acc.calls, r.calls)])

\* node.eval() with memo None: the value or the error, and how often the
\* implementation of each node was invoked.  The memo is new and empty,
\* so the test "id(self) in memo" fails; a Literal gives its object.
eval_node(g, node) ==
    IF g[node].name = "literal"
    THEN [error |-> "none", v |-> g[node].obj,
          calls |-> [x \in DOMAIN g |-> 0]]
    ELSE LET ins == eval_inputs(g, inputs(g[node]), 1,
                                [error |-> "none", vals |-> <<>>,
                                 calls |-> [x \in DOMAIN g |-> 0]])
             L == Len(g[node].pos_args)
             kws == {g[node].named_args[ii][1] :
                        ii \in DOMAIN g[node].named_args}
             res == Impl(g[node].name,
                         SubSeq(ins.vals, 1, L),
                         [w \in kws |->
                            ins.vals[L + (CHOOSE ii \in DOMAIN g[node].named_args :
                                            g[node].named_args[ii][1] = w)]])
         IN  IF ins.error # "none"
             THEN [error |-> ins.error, v |-> NoneVal, calls |-> ins.calls]
             ELSE [error |-> IF res.t = "raise"
                             THEN "ImplementationError" ELSE "none",
                   v |-> res.v,
                   calls |-> [ins.calls EXCEPT ![node] = @ + 1]]

\* ------------------------------------------------------------------------
\* Labels
\* ------------------------------------------------------------------------

\* A node with the label dictionary it was built with (a function from
\* keys to values; a node built without one has no keys).
Labelled(node, label) == node @@ [label |-> label]

\* label_matches that looks at every key of the query (a variant the claim
\* describes, not the code).
label_matches_every_key(l, L, first) ==
    \A k \in DOMAIN L :
        k \in DOMAIN l => IF L[k].k = "list"
                          THEN l[k] \in Range(L[k].n)
                          ELSE l[k] = L[k]

\* label_matches(l, L): the loop "for k in L" returns in its first
\* iteration, so only the key first, the one the dictionary L yields
\* first, is looked at; for an empty L the function returns None.
label_matches(l, L, first) ==
    IF DOMAIN L = {}
    THEN FALSE
    ELSE IF first \in DOMAIN l
    THEN IF L[first].k = "list"
         THEN l[first] \in Range(L[first].n)
         ELSE l[first] = L[first]
    ELSE FALSE

\* expr.get_node_by_label(lbl)
get_node_by_label(g, expr, lbl, first) ==
    SelectSeq(dfs(g, expr), LAMBDA t : label_matches(g[t].label, lbl, first))

\* ------------------------------------------------------------------------
\* Fitting nodes and rec_learn
\* ------------------------------------------------------------------------

\* Numbers are counted in quarters, so that the 0.5 of fitter2.fit and
\* the products of fn2 are exact.
Quarter == 4

NumVal(q) == [k |-> "num", n |-> q]

\* An array of the given number of rows whose elements all equal q
\* quarters (numpy.zeros and numpy.ones of the tests).
ArrayVal(rows, q) == [k |-> "array", n |-> <<rows, q>>]

\* A node with the fields Apply.__init__ gives it for learning: learn_args
\* (keyword names), fit_class and fit_obj (the attributes of the fitter
\* object, a function from the learn_args to numbers).
Learning(node, learn_args, fit_class, fit_obj) ==
    node @@ [learn_args |-> learn_args, fit_class |-> fit_class,
             fit_obj |-> fit_obj]

\* Literal(v): no learn_args and no fit_class.
LearnLiteral(v) == Learning(Literal(v), <<>>, "none", <<>>)

\* dict(node.named_args)[la]
named_arg(node, la) ==
    node.named_args[CHOOSE i \in 1..Len(node.named_args) :
                        /\ node.named_args[i][1] = la
                        /\ \A j \in (i + 1)..Len(node.named_args) :
                              node.named_args[j][1] # la][2]

\* x + y and x * y of numbers and arrays of equal elements.
num_add(x, y) ==
    IF x.k = "array" /\ y.k = "array"
    THEN ArrayVal(x.n[1], x.n[2] + y.n[2])
    ELSE IF x.k = "array" THEN ArrayVal(x.n[1], x.n[2] + y.n)
    ELSE IF y.k = "array" THEN ArrayVal(y.n[1], x.n + y.n[2])
    ELSE NumVal(x.n + y.n)

num_mul(x, y) ==
    IF x.k = "array" /\ y.k = "array"
    THEN ArrayVal(x.n[1], (x.n[2] * y.n[2]) \div Quarter)
    ELSE IF x.k = "array" THEN ArrayVal(x.n[1], (x.n[2] * y.n) \div Quarter)
    ELSE IF y.k = "array" THEN ArrayVal(y.n[1], (x.n * y.n[2]) \div Quarter)
    ELSE NumVal((x.n * y.n) \div Quarter)

\* fn1(X, a) = X + a and fn2(X, a, b) = a*X + b, called with the values
\* of the positional inputs and a function from keywords to values.
fn_impl(name, pos, kw) ==
    IF name = "fn1" /\ Len(pos) = 1 /\ DOMAIN kw = {"a"}
    THEN Returns(num_add(pos[1], kw["a"]))
    ELSE IF name = "fn2" /\ Len(pos) = 1 /\ DOMAIN kw = {"a", "b"}
    THEN Returns(num_add(num_mul(kw["a"], pos[1]), kw["b"]))
    ELSE Raises("TypeError")

\* fitter.fit(data): a += data.shape[0]/10.; fitter2.fit adds 0.5 to b as
\* well.  A value that is no array has no shape.
fit(fit_class, fit_obj, pos, kw) ==
    IF Len(pos) # 1 \/ DOMAIN kw # {}
    THEN Raises("TypeError")
    ELSE IF pos[1].k # "array"
    THEN Raises("AttributeError")
    ELSE IF fit_class = "fitter"
    THEN Returns([fit_obj EXCEPT
                     !["a"] = @ + (Quarter * pos[1].n[1]) \div 10])
    ELSE Returns([fit_obj EXCEPT
                     !["a"] = @ + (Quarter * pos[1].n[1]) \div 10,
                     !["b"] = @ + Quarter \div 2])

RECURSIVE learn_eval(_, _, _)
\* rec_eval(node, memo=vals) of a graph of Literals, fn1 and fn2: the
\* value in vals if there is one, otherwise the implementation applied to
\* the values of the inputs.
learn_eval(g, node, vals) ==
    IF node \in DOMAIN vals
    THEN Returns(vals[node])
    ELSE IF g[node].name = "literal"
    THEN Returns(g[node].obj)
    ELSE LET nd == g[node]
             pv == [i \in 1..Len(nd.pos_args) |->
                       learn_eval(g, nd.pos_args[i], vals)]
             kv == [i \in 1..Len(nd.named_args) |->
                       learn_eval(g, nd.named_args[i][2], vals)]
             kws == {nd.named_args[i][1] : i \in 1..Len(nd.named_args)}
         IN  IF \E i \in DOMAIN pv : pv[i].error # "none"
             THEN pv[CHOOSE i \in DOMAIN pv : pv[i].error # "none"]
             ELSE IF \E i \in DOMAIN kv : kv[i].error # "none"
             THEN kv[CHOOSE i \in DOMAIN kv : kv[i].error # "none"]
             ELSE fn_impl(nd.name,
                          [i \in DOMAIN pv |-> pv[i].v],
                          [w \in kws |->
                              learn_eval(g, named_arg(nd, w), vals).v])

\* The event of the log of rec_learn: node was fitted, or evaluated.
LearnEvent(ev, node) == [ev |-> ev, node |-> node]

RECURSIVE learn_replace(_, _, _)
\* The loop "for la in node.learn_args" after the fit: a new Literal of
\* the fitted value replaces, by replace_input, every input of node that
\* is the node the keyword la holds now.
learn_replace(st, node, i) ==
    IF i > Len(st.g[node].learn_args)
    THEN st
    ELSE LET la == st.g[node].learn_args[i]
             nv == NumVal(st.g[node].fit_obj[la])
             lv == Len(st.g) + 1
             ov == named_arg(st.g[node], la)
         IN  learn_replace(
                 [st EXCEPT
                     !.g = replace_input(Append(st.g, LearnLiteral(nv)),
                                         node, ov, lv),
                     !.vals = (lv :> nv) @@ @],
                 node, i + 1)

\* The fit of a node with a fitter that is not in the memo.  learn_nodes
\* are the nodes its learn_args held when rec_learn(node) began.
learn_fit(st, node, learn_nodes) ==
    LET nd == st.g[node]
        pos == [i \in 1..Len(nd.pos_args) |-> st.vals[nd.pos_args[i]]]
        kws == {nd.named_args[i][1] : i \in
                   {j \in 1..Len(nd.named_args) :
                       nd.named_args[j][2] \notin learn_nodes}}
        kw == [w \in kws |-> st.vals[named_arg(nd, w)]]
        fitted == fit(nd.fit_class, nd.fit_obj, pos, kw)
    IN  IF fitted.error # "none"
        THEN [st EXCEPT !.error = fitted.error]
        ELSE learn_replace(
                 [st EXCEPT !.g[node].fit_obj = fitted.v,
                            !.fits = Append(@, LearnEvent("fit", node))],
                 node, 1)

RECURSIVE rec_learn(_, _)
RECURSIVE rec_learn_inputs(_, _, _)
\* The loop "for inp in node.inputs()", over the inputs the node had when
\* the loop began.
rec_learn_inputs(st, ins, i) ==
    IF i > Len(ins) \/ st.error # "none"
    THEN st
    ELSE rec_learn_inputs(rec_learn(st, ins[i]), ins, i + 1)

\* rec_learn(node, memo): st.g is the graph, st.vals the memo, st.fits
\* the log of fits and evaluations.
rec_learn(st, node) ==
    LET learn_nodes == {named_arg(st.g[node], st.g[node].learn_args[i]) :
                           i \in 1..Len(st.g[node].learn_args)}
        s1 == rec_learn_inputs(st, inputs(st.g[node]), 1)
        s2 == IF s1.g[node].fit_class # "none" /\ node \notin DOMAIN s1.vals
              THEN learn_fit(s1, node, learn_nodes)
              ELSE s1
        out == learn_eval(s2.g, node, s2.vals)
    IN  IF s1.error # "none" THEN s1
        ELSE IF s2.error # "none" THEN s2
        ELSE IF node \in DOMAIN s2.vals THEN s2
        ELSE IF out.error # "none" THEN [s2 EXCEPT !.error = out.error]
        ELSE [s2 EXCEPT !.vals = (node :> out.v) @@ @,
                        !.fits = Append(@, LearnEvent("eval", node))]

\* ------------------------------------------------------------------------
\* The symbol table
\* ------------------------------------------------------------------------

\* SymbolTable.__init__ and the class: the table has methods (of which the
\* model keeps dict, a builtin with an implementation, and define, a method
\* without one), no entries yet, and _impls for the builtins.
SymbolTable ==
    [methods |-> {"dict", "define"},
     entries |-> <<>>,
     impls |-> [n \in {"dict"} |-> "builtin"]]

\* hasattr(self, name)
hasattr(st, name) == name \in st.methods \cup DOMAIN st.entries

\* define that overwrites an existing symbol (a faulty variant).
define_overwriting(st, name, f, pure) ==
    [error |-> "none",
     scope |-> [st EXCEPT
                   !.entries = (name :> [apply_name |-> name, pure |-> pure])
                                  @@ @,
                   !.impls = (name :> f) @@ @]]

\* SymbolTable.define(f, pure) for a function f named name: the outcome
\* [error, scope].
define(st, name, f, pure) ==
    IF hasattr(st, name)
    THEN [error |-> "ValueError: Cannot override existing symbol",
          scope |-> st]
    ELSE [error |-> "none",
          scope |-> [st EXCEPT
                        !.entries = @ @@ (name :> [apply_name |-> name,
                                                   pure |-> pure]),
                        !.impls = @ @@ (name :> f)]]

\* The symbol table once base.py is imported and the body of annotate.py
\* has made its first registrations, as far as the model uses it.
BaseScope ==
    LET d1 == define(SymbolTable, "identity", "identity", TRUE).scope
        d2 == define(d1, "add", "add", TRUE).scope
        d3 == define(d2, "switch", "switch", TRUE).scope
        d4 == define(d3, "Raise", "Raise", TRUE).scope
        d5 == define(d4, "getitem", "getitem", TRUE).scope
        d6 == define(d5, "draw_rng", "draw_rng", FALSE).scope
    IN  define(d6, "uniform", "uniform", FALSE).scope

\* scope.<name>(): the outcome [error, node] of the attribute lookup and
\* the call, for a call without arguments.
scope_call(st, name) ==
    IF name \in DOMAIN st.entries
    THEN [error |-> "none",
          node |-> new_apply(st.entries[name].apply_name, <<>>, <<>>,
                             st.entries[name].pure)]
    ELSE IF name = "dict"
    THEN [error |-> "none", node |-> new_apply("dict", <<>>, <<>>, TRUE)]
    ELSE IF name \in st.methods
    THEN [error |-> "TypeError", node |-> Literal(NoneVal)]
    ELSE [error |-> "AttributeError", node |-> Literal(NoneVal)]

\* apply(name): an Apply node of that name, whatever the table holds.
apply(name) == Apply(name, <<>>, <<>>)

VARIABLES
    nodes,      \* the arena: node id -> node
    root,       \* the expr of the outermost rec_eval call
    stack,      \* the frames of the active rec_eval calls, innermost last
    status,     \* "running", "returned" or "raised"
    rval,       \* the value the outermost call returned
    error,      \* the exception that ended the run
    invoked,    \* history: node -> number of invocations of its implementation
    computed,   \* history: node -> the value first stored for it by set_memo
    called,     \* the operation last called: "dfs", "toposort", "clone", ...
    order,      \* the sequence that call returned
    args,       \* the arguments of that call
    memo,       \* the memo dictionary of a clone call: node -> node
    scope       \* the symbol table: its attributes and its _impls

vars == <<nodes, root, stack, status, rval, error, invoked, computed,
          called, order, args, memo, scope>>

Top == stack[Len(stack)]

Front(s) == SubSeq(s, 1, Len(s) - 1)

Last(s) == s[Len(s)]

\* The values of max_program_len the model passes: None (the default) and
\* one small ceiling.
Ceilings == {DEFAULT_MAX_PROGRAM_LEN, MaxProgramLen}

StartEval(g, expr, deepcopy_inputs, max_program_len, memo_gc) ==
    /\ nodes = g
    /\ root = expr
    /\ stack = <<NewFrame(g, expr, deepcopy_inputs, <<>>, max_program_len,
                          memo_gc)>>
    /\ status = "running"
    /\ rval = NoneVal
    /\ error = "none"
    /\ invoked = [x \in DOMAIN g |-> 0]
    /\ computed = <<>>
    /\ called = "none"
    /\ order = <<>>
    /\ args = <<>>
    /\ memo = <<>>
    /\ scope = BaseScope

\* One in-place edit j.replace_input(old, new) that closes a dependency
\* cycle reachable from the root.
Cycled(g) ==
    {h \in {replace_input(g, e[1], e[2], e[3]) :
               e \in {t \in (DOMAIN g) \X (DOMAIN g) \X (DOMAIN g) :
                         t[2] \in Range(inputs(g[t[1]]))}} :
        HasCycle(h, Len(h))}

\* The state in which a graph algorithm is about to be called on expr.
StartGraph(g, expr) ==
    /\ nodes = g
    /\ root = expr
    /\ stack = <<>>
    /\ status = "idle"
    /\ rval = NoneVal
    /\ error = "none"
    /\ invoked = [x \in DOMAIN g |-> 0]
    /\ computed = <<>>
    /\ called = "none"
    /\ order = <<>>
    /\ args = <<>>
    /\ memo = <<>>
    /\ scope = BaseScope

RECURSIVE InitGraph(_, _, _)
\* Builds the graph downwards from the root.  For "eval" it then starts
\* rec_eval(root) on it, or on one of its cycled edits under the small
\* ceiling; for "graph" it leaves the graph, or one of its cycled edits,
\* to the graph algorithms.
InitGraph(g, i, for) ==
    IF i = 0
    THEN IF for = "eval"
         THEN \E memo_gc \in BOOLEAN :
                 \/ \E c \in Ceilings, dc \in BOOLEAN :
                       /\ dc => ~HasExpansion(g) /\ c = DEFAULT_MAX_PROGRAM_LEN
                       /\ StartEval(g, Len(g), dc, c, memo_gc)
                 \/ /\ ~HasExpansion(g)
                    /\ \E h \in Cycled(g) :
                          StartEval(h, Len(h), FALSE, MaxProgramLen, memo_gc)
         ELSE \/ StartGraph(g, Len(g))
              \/ \E h \in Cycled(g) : StartGraph(h, Len(h))
    ELSE IF DOMAIN g # {} /\ ~IsUsed(g, i)
    THEN FALSE
    ELSE \E r \in NodeChoices(g, i) :
            \E gg \in {(i :> r) @@ g} : InitGraph(gg, i - 1, for)

Init == \E n \in 1..MaxNodes : InitGraph(<<>>, n, "eval")

GraphInit == \E n \in 1..MaxNodes : InitGraph(<<>>, n, "graph")

SetTop(fr) == [stack EXCEPT ![Len(stack)] = fr]

Raise(e) ==
    /\ status' = "raised"
    /\ error' = e
    /\ UNCHANGED <<args, memo, scope, called, order, nodes, root, stack, rval, invoked, computed>>

\* set_memo(node, v) at the end of an iteration of the frame fr (whose todo
\* and node are already updated).
StoreAndContinue(fr, node, v) ==
    LET sm == set_memo(nodes, fr, node, v) IN
    IF sm.ok
    THEN /\ stack' = SetTop([fr EXCEPT !.memo = sm.memo])
         /\ computed' = computed @@ (node :> v)
         /\ UNCHANGED <<args, memo, scope, called, order, nodes, root, status, rval, error, invoked>>
    ELSE Raise("AssertionError")

\* "len(todo) > max_program_len" (off by one: a faulty variant).
OverCeilingOffByOne(fr) == Len(fr.todo) > fr.max_program_len + 1

\* "len(todo) > max_program_len"
OverCeiling(fr) == Len(fr.todo) > fr.max_program_len

\* "if len(todo) > max_program_len: raise RuntimeError"
Runaway ==
    /\ status = "running"
    /\ Top.todo # <<>>
    /\ OverCeiling(Top)
    /\ Raise("RuntimeError")

\* The loop body can run: the stack is non-empty and within the ceiling.
CanPop ==
    /\ status = "running"
    /\ Top.todo # <<>>
    /\ ~OverCeiling(Top)

\* The frame after "node = todo.pop()".
Popped == [Top EXCEPT !.todo = Front(@), !.node = Last(Top.todo)]

\* "node in memo" with the test left out (a faulty variant).
InMemoNever(fr) == FALSE

\* "node in memo" for the node the frame fr has popped.
InMemo(fr) == fr.node \in DOMAIN fr.memo

\* "if node in memo: continue"
PopMemoized ==
    /\ CanPop
    /\ InMemo(Popped)
    /\ stack' = SetTop(Popped)
    /\ UNCHANGED <<args, memo, scope, called, order, nodes, root, status, rval, error, invoked, computed>>

\* "todo.append(node); todo.extend(waiting_on)"
PushBack(fr, waiting_on) ==
    /\ stack' = SetTop([fr EXCEPT !.todo = Append(@, fr.node) \o waiting_on])
    /\ UNCHANGED <<args, memo, scope, called, order, nodes, root, status, rval, error, invoked, computed>>

\* The branch "if node.name == 'switch'".
SwitchStep ==
    /\ CanPop
    /\ ~InMemo(Popped)
    /\ nodes[Popped.node].name = "switch"
    /\ LET fr == Popped
           node == nodes[fr.node]
           switch_i_var == node.pos_args[1]
           switch_i == fr.memo[switch_i_var]
           rval_var == node.pos_args[IntOf(switch_i) + 2]
       IN  IF switch_i_var \notin DOMAIN fr.memo
           THEN PushBack(fr, <<switch_i_var>>)
           ELSE IF ~IntOk(switch_i)
           THEN Raise("TypeError: switch argument was")
           ELSE IF BadSwitchPos(switch_i)
           THEN Raise("ValueError: switch pos must be positive int")
           ELSE IF switch_i.k = "float"
           THEN Raise("TypeError: list indices must be integers")
           ELSE IF IntOf(switch_i) + 2 > Len(node.pos_args)
           THEN Raise("IndexError")
           ELSE IF rval_var \in DOMAIN fr.memo
           THEN StoreAndContinue(fr, fr.node, fr.memo[rval_var])
           ELSE PushBack(fr, <<rval_var>>)

\* The branch "elif isinstance(node, Literal)".
LiteralStep ==
    /\ CanPop
    /\ ~InMemo(Popped)
    /\ nodes[Popped.node].name = "literal"
    /\ StoreAndContinue(Popped, Popped.node, nodes[Popped.node].obj)

\* waiting_on over the positional inputs only (a faulty variant).
WaitingOnPosArgs(fr) ==
    SelectSeq(nodes[fr.node].pos_args, LAMBDA v : v \notin DOMAIN fr.memo)

\* "waiting_on = [v for v in node.inputs() if v not in memo]"
WaitingOn(fr) ==
    SelectSeq(inputs(nodes[fr.node]), LAMBDA v : v \notin DOMAIN fr.memo)

\* A normal node is popped.
IsNormal(n) == nodes[n].name \notin {"switch", "literal"}

\* A normal node with missing inputs goes back on the stack below them.
PushInputs ==
    /\ CanPop
    /\ ~InMemo(Popped)
    /\ IsNormal(Popped.node)
    /\ WaitingOn(Popped) # <<>>
    /\ PushBack(Popped, WaitingOn(Popped))

\* "args = [memo[v] for v in node.pos_args]"
ArgsOf(fr) ==
    [i \in 1..Len(nodes[fr.node].pos_args) |->
        fr.memo[nodes[fr.node].pos_args[i]]]

\* "kwargs = dict([(k, memo[v]) for (k, v) in node.named_args])"
KwargsOf(fr) ==
    LET na == nodes[fr.node].named_args IN
    [kw \in {na[i][1] : i \in 1..Len(na)} |->
        fr.memo[na[CHOOSE i \in 1..Len(na) :
                      /\ na[i][1] = kw
                      /\ \A j \in (i + 1)..Len(na) : na[j][1] # kw][2]]]

\* "for aa in args + kwargs.values(): assert aa is not GarbageCollected"
ArgIsGarbage(fr) ==
    \/ \E i \in 1..Len(ArgsOf(fr)) : ArgsOf(fr)[i] = GarbageCollected
    \/ \E kw \in DOMAIN KwargsOf(fr) : KwargsOf(fr)[kw] = GarbageCollected

\* The frame fr after the call of its node's implementation is counted.
Called(fr) == [fr EXCEPT !.calls[fr.node] = @ + 1]

\* A normal node whose inputs are all memoized is evaluated: its
\* implementation is invoked; a returned Apply starts a nested rec_eval,
\* any other value is stored by set_memo.
Invoke ==
    /\ CanPop
    /\ ~InMemo(Popped)
    /\ IsNormal(Popped.node)
    /\ WaitingOn(Popped) = <<>>
    /\ LET fr == Popped
           res == Impl(nodes[fr.node].name, ArgsOf(fr), KwargsOf(fr))
       IN  IF ~(Range(inputs(nodes[fr.node])) \subseteq DOMAIN fr.memo)
           THEN Raise("KeyError")
           ELSE IF fr.memo_gc /\ ArgIsGarbage(fr)
           THEN Raise("AssertionError")
           ELSE IF res.t = "raise"
           THEN /\ status' = "raised"
                /\ error' = "ImplementationError"
                /\ invoked' = [invoked EXCEPT ![fr.node] = @ + 1]
                /\ stack' = SetTop(Called(fr))
                /\ UNCHANGED <<args, memo, scope, called, order, nodes, root, rval, computed>>
           ELSE IF res.v.k = "apply"
           THEN /\ stack' = Append(SetTop(Called(fr)),
                                   NewFrame(nodes, res.v.n, fr.deepcopy_inputs,
                                            fr.memo, DEFAULT_MAX_PROGRAM_LEN,
                                            fr.memo_gc))
                /\ invoked' = [invoked EXCEPT ![fr.node] = @ + 1]
                /\ UNCHANGED <<args, memo, scope, called, order, nodes, root, status, rval, error, computed>>
           ELSE LET sm == set_memo(nodes, fr, fr.node, res.v) IN
                IF sm.ok
                THEN /\ stack' = SetTop([Called(fr) EXCEPT !.memo = sm.memo])
                     /\ computed' = computed @@ (fr.node :> res.v)
                     /\ invoked' = [invoked EXCEPT ![fr.node] = @ + 1]
                     /\ UNCHANGED <<args, memo, scope, called, order, nodes, root, status, rval, error>>
                ELSE /\ status' = "raised"
                     /\ error' = "AssertionError"
                     /\ invoked' = [invoked EXCEPT ![fr.node] = @ + 1]
                     /\ stack' = SetTop(Called(fr))
                     /\ UNCHANGED <<args, memo, scope, called, order, nodes, root, rval, computed>>

\* "return memo[topnode]" of the outermost call.
Return ==
    /\ status = "running"
    /\ Top.todo = <<>>
    /\ Len(stack) = 1
    /\ status' = "returned"
    /\ rval' = Top.memo[Top.topnode]
    /\ UNCHANGED <<args, memo, scope, called, order, nodes, root, stack, error, invoked, computed>>

\* The memo passed without a copy: the caller sees what the call stored
\* (a faulty variant).
MemoAfterCallShared(caller_memo, callee_memo) == callee_memo

\* "memo = dict(memo)": a call works on its own copy of the memo it is
\* given, so when it ends its caller's memo is what it was at the call.
MemoAfterCall(caller_memo, callee_memo) == caller_memo

\* "return memo[topnode]" of a nested call, and "set_memo(node, foo)" in
\* the call that made it.
ReturnNested ==
    /\ status = "running"
    /\ Top.todo = <<>>
    /\ Len(stack) > 1
    /\ LET foo == Top.memo[Top.topnode]
           caller == stack[Len(stack) - 1]
           fr == [caller EXCEPT !.memo = MemoAfterCall(caller.memo, Top.memo)]
           sm == set_memo(nodes, fr, fr.node, foo)
       IN  IF sm.ok
           THEN /\ stack' = [Front(stack) EXCEPT
                                ![Len(stack) - 1] = [fr EXCEPT !.memo = sm.memo]]
                /\ computed' = computed @@ (fr.node :> foo)
                /\ UNCHANGED <<args, memo, scope, called, order, nodes, root, status, rval, error, invoked>>
           ELSE Raise("AssertionError")

Next ==
    \/ Runaway
    \/ PopMemoized
    \/ SwitchStep
    \/ LiteralStep
    \/ PushInputs
    \/ Invoke
    \/ Return
    \/ ReturnNested

Spec == Init /\ [][Next]_vars

\* ------------------------------------------------------------------------
\* Properties of rec_eval
\* ------------------------------------------------------------------------

\* The selector value v selects an option of the switch node sw.
ValidIndex(sw, v) ==
    /\ v.k = "int"
    /\ v.n >= 0
    /\ v.n + 2 <= Len(sw.pos_args)

\* The inputs of node n that the evaluation requires, as far as the run
\* has determined them: of a switch its selector and, once the selector has
\* a valid value, the selected option; of any other node every input, and
\* the graph an identity node returns when its argument wraps one.
RequiredInputs(n) ==
    LET node == nodes[n] IN
    IF node.name = "switch"
    THEN {node.pos_args[1]}
         \cup (IF /\ node.pos_args[1] \in DOMAIN computed
                  /\ ValidIndex(node, computed[node.pos_args[1]])
               THEN {node.pos_args[computed[node.pos_args[1]].n + 2]}
               ELSE {})
    ELSE Range(inputs(node))
         \cup {nodes[i].obj.n : i \in
                  {j \in Range(inputs(node)) : nodes[j].obj.k = "apply"}}

RECURSIVE RequiredFrom(_, _)
\* The nodes reached from S by one or more required-input edges.
RequiredFrom(S, seen) ==
    LET nxt == UNION {RequiredInputs(x) : x \in S} \ seen
    IN  IF nxt = {} THEN seen ELSE RequiredFrom(nxt, seen \cup nxt)

\* The nodes the run requires: reachable from the root without passing
\* through a non-selected option of a switch.
Required == {root} \cup RequiredFrom({root}, {})

\* The root is a switch whose selector has a valid value.
RootSelected ==
    /\ nodes[root].name = "switch"
    /\ nodes[root].pos_args[1] \in DOMAIN computed
    /\ ValidIndex(nodes[root], computed[nodes[root].pos_args[1]])

SelectedOption(n) ==
    nodes[n].pos_args[computed[nodes[n].pos_args[1]].n + 2]

\* First part of C1: no implementation of a node outside the required part of
\* the graph (a node reachable from the root only through non-selected
\* options of switch nodes) is ever invoked.
C1_OnlyRequiredInvoked ==
    \A n \in DOMAIN nodes : invoked[n] > 0 => n \in Required

\* Second part of C1: a run whose root is a switch returns the value of the
\* selected option.
C1_ReturnsSelected ==
    (status = "returned" /\ nodes[root].name = "switch")
        => /\ RootSelected
           /\ SelectedOption(root) \in DOMAIN computed
           /\ rval = computed[SelectedOption(root)]

\* C1: in every run of rec_eval only the selected option of a switch is
\* required: nodes behind non-selected options are never invoked, and the
\* run returns the selected option's value.
C1_SwitchIsLazy == C1_OnlyRequiredInvoked /\ C1_ReturnsSelected

C3_InputsReadyBeforeInvoke ==
    [][/\ \A n \in DOMAIN nodes :
            invoked'[n] > invoked[n]
                => /\ IsNormal(n)
                   /\ n = Last(Top.todo)
                   /\ Range(inputs(nodes[n])) \subseteq DOMAIN Top.memo
       /\ (/\ CanPop
           /\ Last(Top.todo) \notin DOMAIN Top.memo
           /\ IsNormal(Last(Top.todo))
           /\ ~(Range(inputs(nodes[Last(Top.todo)])) \subseteq DOMAIN Top.memo))
            => /\ invoked' = invoked
               /\ Len(stack') = Len(stack)
               /\ SubSeq(stack'[Len(stack)].todo, 1, Len(Top.todo)) = Top.todo
               /\ Len(stack'[Len(stack)].todo) > Len(Top.todo)
               /\ \A i \in (Len(Top.todo) + 1)..Len(stack'[Len(stack)].todo) :
                     /\ stack'[Len(stack)].todo[i]
                            \in Range(inputs(nodes[Last(Top.todo)]))
                     /\ stack'[Len(stack)].todo[i] \notin DOMAIN Top.memo
               /\ \A x \in Range(inputs(nodes[Last(Top.todo)])) \ DOMAIN Top.memo :
                     \E i \in (Len(Top.todo) + 1)..Len(stack'[Len(stack)].todo) :
                        stack'[Len(stack)].todo[i] = x
      ]_vars

C3_InvokedAfterInputs ==
    /\ status = "returned"
    /\ \E n \in DOMAIN nodes :
          /\ nodes[n].name = "add"
          /\ invoked[n] = 1
          /\ Range(inputs(nodes[n])) \subseteq DOMAIN computed

\* The required part of the graph contains a dependency cycle.
RequiredCycle == \E x \in Required : x \in RequiredFrom({x}, {})

\* The errors that end a run before the ceiling is reached: an
\* implementation that raises, and the checks of a switch selector.
EarlierErrors ==
    {"ImplementationError", "TypeError: switch argument was",
     "ValueError: switch pos must be positive int",
     "TypeError: list indices must be integers", "IndexError"}

\* C4: every run ends; an iteration that starts with more than
\* max_program_len stack entries raises the runaway error; a run whose
\* required nodes lie on a cycle never returns: it ends in the runaway
\* error, unless an implementation or a switch check raised before the
\* stack grew that far.
C4_Terminates ==
    /\ <>(status # "running")
    /\ [][(status = "running" /\ Len(Top.todo) > Top.max_program_len)
            => (status' = "raised" /\ error' = "RuntimeError")]_vars
    /\ [](status = "returned" => ~RequiredCycle)
    /\ []((status = "raised" /\ RequiredCycle)
            => error \in {"RuntimeError"} \cup EarlierErrors)

\* A run on a graph whose required nodes lie on a cycle ended in the
\* runaway error.
C4_CycleRanAway ==
    /\ status = "raised"
    /\ error = "RuntimeError"
    /\ RequiredCycle
    /\ Len(Top.todo) > Top.max_program_len

\* The value v is not a non-negative integer: it does not convert to an
\* int, it is negative or it has a fractional part.
NotNonNegativeInteger(v) ==
    \/ v.k \notin {"int", "float"}
    \/ v.n < 0
    \/ (v.k = "float" /\ v.n % 2 # 0)

\* The next iteration pops a switch whose memoized selector is invalid.
BadSelectorPopped ==
    /\ CanPop
    /\ Last(Top.todo) \notin DOMAIN Top.memo
    /\ nodes[Last(Top.todo)].name = "switch"
    /\ nodes[Last(Top.todo)].pos_args[1] \in DOMAIN Top.memo
    /\ NotNonNegativeInteger(Top.memo[nodes[Last(Top.todo)].pos_args[1]])

\* C5: a switch whose memoized selector is not a non-negative integer ends
\* the run with the invalid-switch-index error; nothing is pushed, stored
\* or invoked by that iteration.
C5_InvalidSwitchIndex ==
    [][BadSelectorPopped
        => /\ status' = "raised"
           /\ error' \in {"TypeError: switch argument was",
                          "ValueError: switch pos must be positive int"}
           /\ stack' = stack
           /\ invoked' = invoked
           /\ computed' = computed]_vars

\* A run ended on a switch whose selector is a negative integer, with an
\* option of the switch never evaluated.
C5_NegativeSelectorRaised ==
    /\ status = "raised"
    /\ error = "ValueError: switch pos must be positive int"
    /\ nodes[Last(Top.todo)].name = "switch"
    /\ Top.memo[nodes[Last(Top.todo)].pos_args[1]] = IntVal(-1)
    /\ nodes[Last(Top.todo)].pos_args[2] \notin DOMAIN computed

\* C6: with memo_gc on an acyclic graph without returned graphs, neither
\* assertion about GarbageCollected fails: the tombstone is never an
\* argument of an implementation and never stored as a computed value.
C6_NoTombstoneUsed ==
    (stack[1].memo_gc /\ Acyclic(nodes, root) /\ ~HasExpansion(nodes))
        => /\ error # "AssertionError"
           /\ \A n \in DOMAIN computed : computed[n] # GarbageCollected
           /\ rval # GarbageCollected

\* A run with reclamation on an acyclic graph with a switch and a node with
\* two consumers returned, with a tombstone in the memo.
C6_ReturnedWithTombstones ==
    /\ status = "returned"
    /\ stack[1].memo_gc
    /\ Acyclic(nodes, root)
    /\ ~HasExpansion(nodes)
    /\ \E n \in DOMAIN stack[1].memo : stack[1].memo[n] = GarbageCollected
    /\ \E n \in Reachable(nodes, root) : nodes[n].name = "switch"
    /\ \E n \in Reachable(nodes, root) :
          Cardinality({c \in Reachable(nodes, root) :
                          n \in Range(inputs(nodes[c]))}) > 1

C7_NestedFlagsAndMemo ==
    \A i \in 2..Len(stack) :
        /\ stack[i].memo_gc = stack[i - 1].memo_gc
        /\ stack[i].deepcopy_inputs = stack[i - 1].deepcopy_inputs
        /\ DOMAIN stack[i - 1].memo \subseteq DOMAIN stack[i].memo

LiveSpec == Spec /\ WF_vars(Next)

\* ------------------------------------------------------------------------
\* The graph algorithms as operations
\* ------------------------------------------------------------------------

\* A call dfs(root).
CallDfs ==
    /\ status = "idle"
    /\ called' = "dfs"
    /\ order' = dfs(nodes, root)
    /\ error' = "none"
    /\ UNCHANGED <<args, memo, scope, nodes, root, stack, status, rval, invoked,
                   computed>>

\* A call toposort(root).
CallToposort ==
    /\ status = "idle"
    /\ \E out \in toposort(nodes, root) :
          /\ called' = "toposort"
          /\ order' = out.order
          /\ error' = out.error
    /\ UNCHANGED <<args, memo, scope, nodes, root, stack, status, rval, invoked,
                   computed>>

GraphNext == CallDfs \/ CallToposort

GraphSpec == GraphInit /\ [][GraphNext]_vars

\* The position of node x in the sequence s.
IndexOf(s, x) == CHOOSE i \in 1..Len(s) : s[i] = x

\* The sequence s holds every node reachable from root exactly once.
EachReachableOnce(s) ==
    /\ Range(s) = Reachable(nodes, root)
    /\ Len(s) = Cardinality(Reachable(nodes, root))

\* Every node of s comes after all of its inputs.
InputsFirst(s) ==
    \A i \in 1..Len(s) :
        \A x \in Range(inputs(nodes[s[i]])) :
            x \in Range(s) /\ IndexOf(s, x) < i

\* C9: dfs(root) returns every node reachable from root exactly once; on an
\* acyclic graph every node comes after all of its inputs and root is last.
C9_DfsPostOrder ==
    called = "dfs"
        => /\ EachReachableOnce(order)
           /\ Acyclic(nodes, root)
                => (InputsFirst(order) /\ order[Len(order)] = root)

\* dfs was called on an acyclic graph of MaxNodes nodes, one of them with
\* two consumers.
C9_DfsOnSharedDag ==
    /\ called = "dfs"
    /\ Acyclic(nodes, root)
    /\ Len(order) = MaxNodes
    /\ \E n \in DOMAIN nodes :
          Cardinality({c \in DOMAIN nodes : n \in Range(inputs(nodes[c]))}) > 1

\* C10: on every acyclic graph, a lone root included, toposort(root)
\* succeeds with a sequence of every reachable node exactly once, inputs
\* first, root last.
C10_ToposortSucceeds ==
    (called = "toposort" /\ Acyclic(nodes, root))
        => /\ error = "none"
           /\ EachReachableOnce(order)
           /\ InputsFirst(order)
           /\ order[Len(order)] = root

\* C11: toposort(root) on a graph with a dependency cycle reachable from
\* root raises the cycle error (NetworkXUnfeasible) and returns no order.
C11_CycleDetected ==
    (called = "toposort" /\ HasCycle(nodes, root))
        => (error = "NetworkXUnfeasible" /\ order = <<>>)

\* toposort was called on a graph that replace_input has cycled, a node
\* being its own input or not, and raised the cycle error.
C11_CycledGraphSorted ==
    /\ called = "toposort"
    /\ HasCycle(nodes, root)
    /\ Cardinality(Reachable(nodes, root)) > 2
    /\ error = "NetworkXUnfeasible"

\* ------------------------------------------------------------------------
\* The graph transformations as operations
\* ------------------------------------------------------------------------

\* The nodes that can be built at position i over the inputs 1..i-1 of a
\* graph to transform: Literal(v) for small ints and the float 1.0,
\* scope.add(x, y), scope.add(x, b=y), apply('add', x, y), which is not
\* pure, and scope.uniform(x, high=y), which is stochastic and not pure.
TransformChoices(i) ==
    LET L == 1..(i - 1) IN
    {Literal(IntVal(x)) : x \in 0..MaxInt}
    \cup {Literal(FloatVal(2))}
    \cup {new_apply("add", <<x, y>>, <<>>, TRUE) : x \in L, y \in L}
    \cup {new_apply("add", <<x>>, << <<"b", y>> >>, TRUE) : x \in L, y \in L}
    \cup {Apply("add", <<x, y>>, <<>>) : x \in L, y \in L}
    \cup {new_apply("uniform", <<x>>, << <<"high", y>> >>, FALSE) :
              x \in L, y \in L}

RECURSIVE InitTransform(_, _)
\* Builds an acyclic graph downwards from the root and leaves it to the
\* graph transformations.
InitTransform(g, i) ==
    IF i = 0
    THEN StartGraph(g, Len(g))
    ELSE IF DOMAIN g # {} /\ ~IsUsed(g, i)
    THEN FALSE
    ELSE \E r \in TransformChoices(i) :
            \E gg \in {(i :> r) @@ g} : InitTransform(gg, i - 1)

TransformInit == \E n \in 1..MaxNodes : InitTransform(<<>>, n)

\* The memo dictionaries clone is called with: none, or one substitution
\* of a node of the graph by a node.
Substitutions ==
    {<<>>} \cup {(k :> v) : k \in Reachable(nodes, root), v \in DOMAIN nodes}

\* clone(root, memo)
CallClone ==
    /\ called = "none"
    /\ \E substitutions \in Substitutions :
          /\ called' = "clone"
          /\ args' = [memo |-> substitutions]
          /\ nodes' = clone(nodes, root, substitutions).g
          /\ memo' = clone(nodes, root, substitutions).memo
          /\ rval' = clone(nodes, root, substitutions).rval
          /\ error' = clone(nodes, root, substitutions).error
    /\ UNCHANGED <<root, stack, status, invoked, computed, order, scope>>

\* clone_merge(root, merge_literals=merge_literals)
CallCloneMerge ==
    /\ called = "none"
    /\ \E merge_literals \in BOOLEAN :
          /\ called' = "clone_merge"
          /\ args' = [merge_literals |-> merge_literals]
          /\ nodes' = clone_merge(nodes, root, <<>>, merge_literals).g
          /\ memo' = clone_merge(nodes, root, <<>>, merge_literals).memo
          /\ rval' = clone_merge(nodes, root, <<>>, merge_literals).rval
          /\ error' = clone_merge(nodes, root, <<>>, merge_literals).error
    /\ UNCHANGED <<root, stack, status, invoked, computed, order, scope>>

\* node.replace_input(old_node, new_node); order is the list it returns.
CallReplaceInput ==
    /\ called = "none"
    /\ \E node \in DOMAIN nodes, old_node \in DOMAIN nodes,
          new_node \in DOMAIN nodes :
          /\ called' = "replace_input"
          /\ args' = [node |-> node, old_node |-> old_node,
                      new_node |-> new_node]
          /\ nodes' = replace_input(nodes, node, old_node, new_node)
          /\ order' = replace_input_rval(nodes[node], old_node)
    /\ UNCHANGED <<root, stack, status, rval, error, invoked, computed, memo,
                   scope>>

\* replace_implicit_stochastic_nodes(root, rng); order is the pair it
\* returns, memo records the draw that stands for each stochastic node.
CallReplaceStochastic ==
    /\ called = "none"
    /\ LET out == replace_implicit_stochastic_nodes(nodes, root) IN
          /\ called' = "replace_implicit_stochastic_nodes"
          /\ args' = [rng |-> RngVal]
          /\ nodes' = out.g
          /\ error' = out.error
          /\ order' = IF out.error = "none"
                      THEN <<out.expr, out.new_lrng>>
                      ELSE <<>>
          /\ memo' = out.draws
    /\ UNCHANGED <<root, stack, status, rval, invoked, computed, scope>>

TransformNext ==
    CallClone \/ CallCloneMerge \/ CallReplaceInput \/ CallReplaceStochastic

TransformSpec == TransformInit /\ [][TransformNext]_vars

\* The nodes of the graph the transformation was called on.
Originals == Reachable(nodes, root)

\* The node memo gives for the original node c is a node made by the call,
\* of the same name as c, whose inputs are what memo gives for the inputs
\* of c: same positions, same keywords.
IsCloneOf(c) ==
    /\ memo[c] \notin Originals
    /\ nodes[memo[c]].name = nodes[c].name
    /\ nodes[memo[c]].obj = nodes[c].obj
    /\ nodes[memo[c]].pos_args =
          [ii \in 1..Len(nodes[c].pos_args) |-> memo[nodes[c].pos_args[ii]]]
    /\ nodes[memo[c]].named_args =
          [ii \in 1..Len(nodes[c].named_args) |->
              <<nodes[c].named_args[ii][1], memo[nodes[c].named_args[ii][2]]>>]

\* C12: clone(root, {}) on an acyclic graph makes exactly one clone per
\* node of dfs(root): as many nodes are reachable from the returned root
\* as from root, and every clone has, at the same positions and under the
\* same keywords, the one clone of each input, so a shared input stays
\* shared.
C12_CloneKeepsSharing ==
    (called = "clone" /\ args.memo = <<>>)
        => /\ error = "none"
           /\ DOMAIN memo = Originals
           /\ \A a, b \in Originals : memo[a] = memo[b] => a = b
           /\ \A c \in Originals : IsCloneOf(c)
           /\ rval = ApplyVal(memo[root])
           /\ Reachable(nodes, rval.n) = {memo[c] : c \in Originals}
           /\ Cardinality(Reachable(nodes, rval.n)) = Cardinality(Originals)

\* clone(root, {}) was called on a graph of MaxNodes nodes in which one
\* node is a positional input of one consumer and a keyword input of
\* another.
C12_SharedInputCloned ==
    /\ called = "clone"
    /\ args.memo = <<>>
    /\ Cardinality(Originals) = MaxNodes
    /\ \E x, c1, c2 \in Originals :
          /\ c1 # c2
          /\ x \in Range(nodes[c1].pos_args)
          /\ nodes[c2].named_args # <<>>
          /\ nodes[c2].named_args[1][2] = x

\* The key of the one substitution the clone call was given.
SubstitutedKey == CHOOSE k \in DOMAIN args.memo : TRUE

\* The original nodes reachable from root only through the node k: those
\* no longer reachable when k has no inputs.
OnlyThrough(k) ==
    Originals \ Reachable([nodes EXCEPT ![k].pos_args = <<>>,
                                        ![k].named_args = <<>>], root)

\* The first half of C13: the substituted key stands for itself in memo,
\* every other node reachable without passing through the key is cloned
\* over what memo gives for its inputs, and the call returns memo[root].
SubstitutionUsed ==
    /\ error = "none"
    /\ memo[SubstitutedKey] = args.memo[SubstitutedKey]
    /\ \A c \in Originals \ ({SubstitutedKey} \cup OnlyThrough(SubstitutedKey)) :
          IsCloneOf(c)
    /\ rval = ApplyVal(memo[root])

\* C13 as stated: the substituted key is represented by its substitute,
\* and the nodes reachable only through the key are not cloned.
C13_SubgraphNotCloned ==
    (called = "clone" /\ args.memo # <<>>)
        => /\ SubstitutionUsed
           /\ \A m \in OnlyThrough(SubstitutedKey) : m \notin DOMAIN memo

\* C13 amended: the substituted key is represented by its substitute; the
\* nodes reachable only through the key are visited and cloned all the
\* same, but no clone of them is reachable from the returned root.
C13_SubgraphClonedUnreachable ==
    (called = "clone" /\ args.memo # <<>>)
        => /\ SubstitutionUsed
           /\ \A m \in OnlyThrough(SubstitutedKey) :
                 /\ m \in DOMAIN memo
                 /\ IsCloneOf(m)
                 /\ memo[m] \notin Reachable(nodes, rval.n)

\* clone was called with a substitution for a node that is not the root
\* and has inputs reachable only through it, by a node other than itself.
C13_SubstitutedInnerNode ==
    /\ called = "clone"
    /\ args.memo # <<>>
    /\ SubstitutedKey # root
    /\ args.memo[SubstitutedKey] # SubstitutedKey
    /\ OnlyThrough(SubstitutedKey) # {}
    /\ Cardinality(Originals) = MaxNodes

\* The inputs of the original node c after merging: what memo gives for
\* each of them, position for position and keyword for keyword.
MergedInputs(c) ==
    <<[ii \in 1..Len(nodes[c].pos_args) |-> memo[nodes[c].pos_args[ii]]],
      [ii \in 1..Len(nodes[c].named_args) |->
          <<nodes[c].named_args[ii][1], memo[nodes[c].named_args[ii][2]]>>]>>

\* C14: clone_merge gives two pure nodes of the same operation name, whose
\* inputs after merging are the same node for node and keyword for
\* keyword, one shared result node.
C14_PureDuplicatesShared ==
    called = "clone_merge"
        => /\ error = "none"
           /\ \A a, b \in Originals :
                 (/\ nodes[a].pure /\ nodes[b].pure
                  /\ nodes[a].name # "literal"
                  /\ nodes[a].name = nodes[b].name
                  /\ MergedInputs(a) = MergedInputs(b))
                     => memo[a] = memo[b]

\* What does hold of the pure duplicates: a pure node is represented by
\* its own clone or by an earlier ORIGINAL node of the same name and the
\* same original inputs, which is not what memo gives for that earlier
\* node.
C14_DuplicateMapsToOriginal ==
    called = "clone_merge"
        => \A b \in Originals :
              \/ IsCloneOf(b)
              \/ /\ nodes[b].pure
                 /\ memo[b] \in Originals \ {b}
                 /\ nodes[memo[b]].name = nodes[b].name
                 /\ memo[memo[b]] # memo[b]

\* C15: clone_merge never replaces an impure node by another node and
\* never uses an impure node as the replacement for another node.
C15_ImpureNeverMerged ==
    called = "clone_merge"
        => \A n \in Originals :
              ~nodes[n].pure
                 => /\ IsCloneOf(n)
                    /\ \A m \in Originals \ {n} :
                          memo[m] # n /\ memo[m] # memo[n]

\* The half of C15 that holds: an impure node always gets a clone of its
\* own, which represents no other node.
C15_ImpureNeverReplaced ==
    called = "clone_merge"
        => \A n \in Originals :
              ~nodes[n].pure
                 => /\ IsCloneOf(n)
                    /\ \A m \in Originals \ {n} : memo[m] # memo[n]

\* C16: clone_merge gives two Literal nodes one result node exactly when
\* merge_literals is enabled and their values compare equal.
C16_LiteralsMergedIff ==
    called = "clone_merge"
        => \A a, b \in Originals :
              (a # b /\ nodes[a].name = "literal" /\ nodes[b].name = "literal")
                 => ((memo[a] = memo[b])
                        <=> (args.merge_literals
                                /\ PyEq(nodes[a].obj, nodes[b].obj)))

\* The half of C16 that holds: with merge_literals disabled every Literal
\* gets a clone of its own.
C16_LiteralsKeptApart ==
    (called = "clone_merge" /\ ~args.merge_literals)
        => \A a, b \in Originals :
              (a # b /\ nodes[a].name = "literal" /\ nodes[b].name = "literal")
                 => (IsCloneOf(a) /\ IsCloneOf(b) /\ memo[a] # memo[b])

\* The 0-based positions, among the inputs of the node record node, of the
\* inputs that are old_node.
PositionsOf(node, old_node) ==
    {p \in 0..(Len(inputs(node)) - 1) : inputs(node)[p + 1] = old_node}

\* C19: node.replace_input(old, new) puts new at every positional and
\* keyword input of node that is old, leaves every other input, the number
\* and order of the inputs, the keyword names and every other node as they
\* were, and returns exactly the positions that held old, in increasing
\* order, a keyword input counting from the number of positional inputs;
\* on a Literal nothing changes and the list is empty.
C19_ReplaceInputFrame ==
    [][called' = "replace_input"
        => LET node == args'.node
               old == args'.old_node
               new == args'.new_node
           IN  /\ DOMAIN nodes' = DOMAIN nodes
               /\ \A m \in DOMAIN nodes : m # node => nodes'[m] = nodes[m]
               /\ nodes'[node].name = nodes[node].name
               /\ nodes'[node].obj = nodes[node].obj
               /\ nodes'[node].pure = nodes[node].pure
               /\ Len(nodes'[node].pos_args) = Len(nodes[node].pos_args)
               /\ Len(nodes'[node].named_args) = Len(nodes[node].named_args)
               /\ \A ii \in 1..Len(nodes[node].pos_args) :
                     nodes'[node].pos_args[ii] =
                        IF nodes[node].pos_args[ii] = old
                        THEN new
                        ELSE nodes[node].pos_args[ii]
               /\ \A ii \in 1..Len(nodes[node].named_args) :
                     /\ nodes'[node].named_args[ii][1] =
                           nodes[node].named_args[ii][1]
                     /\ nodes'[node].named_args[ii][2] =
                           IF nodes[node].named_args[ii][2] = old
                           THEN new
                           ELSE nodes[node].named_args[ii][2]
               /\ Range(order') = PositionsOf(nodes[node], old)
               /\ \A ii, jj \in 1..Len(order') :
                     ii < jj => order'[ii] < order'[jj]
               /\ nodes[node].name = "literal"
                     => (nodes' = nodes /\ order' = <<>>)]_vars

\* replace_input replaced, by another node, a node that its target had as
\* a positional and as a keyword input, and returned both positions.
C19_KeywordPositionReturned ==
    /\ called = "replace_input"
    /\ args.old_node # args.new_node
    /\ Len(nodes[args.node].pos_args) = 1
    /\ Len(nodes[args.node].named_args) = 1
    /\ order = <<0, 1>>
    /\ inputs(nodes[args.node]) = <<args.new_node, args.new_node>>

\* The nodes of the graph whose name is an implicit-stochastic symbol.
StochasticNodes(g, expr) ==
    {n \in Reachable(g, expr) : g[n].name \in implicit_stochastic_symbols}

\* d is the drawn-value output of a replacement of the node orig: the
\* first item of a draw_rng node that has, after the rng and the name of
\* orig, the positional and keyword arguments of orig.
IsDrawOf(d, orig) ==
    /\ nodes[d].name = "getitem"
    /\ Len(nodes[d].pos_args) = 2
    /\ nodes[nodes[d].pos_args[2]].name = "literal"
    /\ nodes[nodes[d].pos_args[2]].obj = IntVal(0)
    /\ LET obj == nodes[nodes[d].pos_args[1]] IN
          /\ obj.name = "draw_rng"
          /\ Len(obj.pos_args) = 2 + Len(nodes[orig].pos_args)
          /\ nodes[obj.pos_args[2]].obj = StrVal
          /\ \A ii \in 1..Len(nodes[orig].pos_args) :
                obj.pos_args[2 + ii] = nodes[orig].pos_args[ii]
          /\ obj.named_args = nodes[orig].named_args

\* What holds of the graph after a call that returned: no node of an
\* implicit-stochastic name is reachable from the returned root, and each
\* replaced node has one replacement of its own.
StochasticFree ==
    (called = "replace_implicit_stochastic_nodes" /\ error = "none")
        => /\ StochasticNodes(nodes, order[1]) = {}
           /\ \A orig \in DOMAIN memo : IsDrawOf(memo[orig], orig)
           /\ \A a, b \in DOMAIN memo : memo[a] = memo[b] => a = b

StochasticInDfsOrder(g, expr) ==
    SelectSeq(dfs(g, expr), LAMBDA n : g[n].name \in implicit_stochastic_symbols)

\* n is the advanced-state output of the draw_rng node obj: getitem(obj, 1).
IsAdvancedStateOf(g, n, obj) ==
    /\ g[n].name = "getitem"
    /\ Len(g[n].pos_args) = 2
    /\ g[n].pos_args[1] = obj
    /\ g[g[n].pos_args[2]].name = "literal"
    /\ g[g[n].pos_args[2]].obj = IntVal(1)

\* n is the seed node: the Literal as_apply(rng) made for the generator.
IsSeedNode(g, n) == g[n].name = "literal" /\ g[n].obj = RngVal

\* C21: replace_implicit_stochastic_nodes threads the generator state as
\* one chain in the order of dfs(expr): the draw_rng node made for the
\* first stochastic node takes the seed node, the one made for the k-th
\* takes the advanced-state output of the one made for the (k-1)-th, and
\* the returned generator-state node is the advanced-state output of the
\* last.
C21_GeneratorChain ==
    [][(called' = "replace_implicit_stochastic_nodes" /\ error' = "none")
        => LET S == StochasticInDfsOrder(nodes, root)
               DrawRng(k) == nodes'[memo'[S[k]]].pos_args[1]
           IN  /\ Len(S) >= 1
               /\ \A k \in 1..Len(S) :
                     /\ nodes'[DrawRng(k)].name = "draw_rng"
                     /\ IF k = 1
                        THEN IsSeedNode(nodes', nodes'[DrawRng(k)].pos_args[1])
                        ELSE IsAdvancedStateOf(nodes',
                                               nodes'[DrawRng(k)].pos_args[1],
                                               DrawRng(k - 1))
               /\ \A j, k \in 1..Len(S) : j # k => DrawRng(j) # DrawRng(k)
               /\ IsAdvancedStateOf(nodes', order'[2], DrawRng(Len(S)))]_vars

\* The call returned on a graph with three stochastic nodes.
C21_ThreeDrawsChained ==
    /\ called = "replace_implicit_stochastic_nodes"
    /\ error = "none"
    /\ Cardinality(DOMAIN memo) = 3

\* C22: replace_implicit_stochastic_nodes returns a pair for every graph,
\* and for a graph with no implicit-stochastic node the pair is the input
\* root and the seed node.
C22_AlwaysReturnsPair ==
    called = "replace_implicit_stochastic_nodes"
        => /\ error = "none"
           /\ Len(order) = 2
           /\ DOMAIN memo = {}
                 => (order[1] = root /\ IsSeedNode(nodes, order[2]))

\* What the code does on a graph with no implicit-stochastic node: the
\* name new_lrng is never bound and the return statement raises.
C22_NoStochasticNodeRaises ==
    [][called' = "replace_implicit_stochastic_nodes"
        => IF StochasticNodes(nodes, root) = {}
           THEN error' = "UnboundLocalError" /\ order' = <<>>
           ELSE error' = "none" /\ Len(order') = 2]_vars

\* ------------------------------------------------------------------------
\* The symbol table as operations
\* ------------------------------------------------------------------------

\* Largest number of nodes built in a run of the symbol table operations.
MaxRegistryNodes == 2

\* The names define is called with: a builtin, a method of the table and
\* two free names.
DefNames == {"dict", "define", "add", "uniform"}

\* The names nodes are built for.
ConstructNames == {"dict", "add", "uniform"}

\* The functions registered: two different functions for every name.
Functions == {"f", "g"}

\* A fresh SymbolTable(), no node built yet.
RegistryInit ==
    /\ nodes = <<>>
    /\ root = 0
    /\ stack = <<>>
    /\ status = "idle"
    /\ rval = NoneVal
    /\ error = "none"
    /\ invoked = <<>>
    /\ computed = <<>>
    /\ called = "none"
    /\ order = <<>>
    /\ args = <<>>
    /\ memo = <<>>
    /\ scope = SymbolTable

\* scope.define(f, pure=pure) for a function f named name.
CallDefine ==
    \E name \in DefNames, f \in Functions, pure \in BOOLEAN :
        /\ called' = "define"
        /\ args' = [name |-> name, f |-> f, pure |-> pure]
        /\ scope' = define(scope, name, f, pure).scope
        /\ error' = define(scope, name, f, pure).error
        /\ UNCHANGED <<nodes, root, stack, status, rval, invoked, computed,
                       order, memo>>

\* The call of a node constructor ended with the outcome out.
Constructed(out) ==
    /\ error' = out.error
    /\ nodes' = IF out.error = "none" THEN Append(nodes, out.node) ELSE nodes
    /\ UNCHANGED <<root, stack, status, rval, invoked, computed, order, memo,
                   scope>>

\* scope.<name>()
CallScope ==
    /\ Len(nodes) < MaxRegistryNodes
    /\ \E name \in ConstructNames :
          /\ called' = "scope_call"
          /\ args' = [name |-> name]
          /\ Constructed(scope_call(scope, name))

\* scope._new_apply(name, [], {}, o_len=None, pure=pure)
CallNewApply ==
    /\ Len(nodes) < MaxRegistryNodes
    /\ \E name \in ConstructNames, pure \in BOOLEAN :
          /\ called' = "_new_apply"
          /\ args' = [name |-> name]
          /\ Constructed([error |-> "none",
                          node |-> new_apply(name, <<>>, <<>>, pure)])

\* apply(name)
CallApply ==
    /\ Len(nodes) < MaxRegistryNodes
    /\ \E name \in ConstructNames :
          /\ called' = "apply"
          /\ args' = [name |-> name]
          /\ Constructed([error |-> "none", node |-> apply(name)])

RegistryNext == CallDefine \/ CallScope \/ CallNewApply \/ CallApply

RegistrySpec == RegistryInit /\ [][RegistryNext]_vars

\* C17: a define on a name the table already has raises the
\* duplicate-symbol error and leaves the table as it was; no step changes
\* or removes the entry or the implementation bound to a name.
C17_AppendOnly ==
    [][/\ (called' = "define" /\ hasattr(scope, args'.name))
            => (error' = "ValueError: Cannot override existing symbol"
                /\ scope' = scope)
       /\ \A n \in DOMAIN scope.impls :
             n \in DOMAIN scope'.impls /\ scope'.impls[n] = scope.impls[n]
       /\ \A n \in DOMAIN scope.entries :
             n \in DOMAIN scope'.entries
                /\ scope'.entries[n] = scope.entries[n]
      ]_vars

\* A define of another function, with another purity, under a name defined
\* before was refused.
C17_RedefinitionRefused ==
    /\ called = "define"
    /\ error = "ValueError: Cannot override existing symbol"
    /\ args.name \in DOMAIN scope.entries
    /\ scope.impls[args.name] # args.f
    /\ scope.entries[args.name].pure # args.pure

\* C18: every node constructor fails when the name has no implementation
\* in the table, so every node that exists has a registered name.
C18_UnknownNameRejected ==
    /\ (called \in {"scope_call", "_new_apply", "apply"}
            /\ args.name \notin DOMAIN scope.impls)
          => error # "none"
    /\ \A i \in DOMAIN nodes : nodes[i].name \in DOMAIN scope.impls

\* The part of C18 that holds: the attribute call scope.<name>() fails for
\* a name the table does not have.
C18_ScopeCallRejects ==
    (called = "scope_call" /\ args.name \notin DOMAIN scope.impls)
        => error = "AttributeError"

\* ------------------------------------------------------------------------
\* vchoice_split and Nmap as operations
\* ------------------------------------------------------------------------

\* Largest number of samples of a vectorized expression.
MaxSamples == 3

\* Largest number of options of a one_of node.
MaxOptions == 2

\* The sequences over S of at most n items.
SeqsUpTo(S, n) == UNION {[1..m -> S] : m \in 0..n}

\* The lists of sample indices a caller passes: no index occurs twice.
IndexLists ==
    {ListVal([p \in DOMAIN q |-> IntVal(q[p])]) :
        q \in {q \in SeqsUpTo(0..(MaxSamples - 1), MaxSamples) :
                  \A a, b \in DOMAIN q : q[a] = q[b] => a = b}}

\* The lists of choices a caller passes, the integers just outside
\* 0 .. MaxOptions - 1 included.
ChoiceLists ==
    {ListVal([p \in DOMAIN q |-> IntVal(q[p])]) :
        q \in SeqsUpTo(-1..MaxOptions, MaxSamples)}

\* The lists of per-sample values of an input of a lifted node.
SampleLists ==
    {ListVal([p \in DOMAIN q |-> IntVal(q[p])]) :
        q \in SeqsUpTo(0..MaxInt, MaxSamples)}

LiftedOpsInit ==
    /\ nodes = <<>>
    /\ root = 0
    /\ stack = <<>>
    /\ status = "idle"
    /\ rval = NoneVal
    /\ error = "none"
    /\ invoked = <<>>
    /\ computed = <<>>
    /\ called = "none"
    /\ order = <<>>
    /\ args = <<>>
    /\ memo = <<>>
    /\ scope = BaseScope

\* scope._impls['vchoice_split'](idxs, choices, n_options)
CallVchoiceSplit ==
    /\ called = "none"
    /\ \E idxs \in IndexLists, choices \in ChoiceLists,
          n_options \in 1..MaxOptions :
          /\ called' = "vchoice_split"
          /\ args' = [idxs |-> idxs, choices |-> choices,
                      n_options |-> n_options]
          /\ rval' = vchoice_split(idxs, choices, n_options).v
          /\ error' = vchoice_split(idxs, choices, n_options).error
    /\ UNCHANGED <<nodes, root, stack, status, invoked, computed, order, memo,
                   scope>>

\* scope._impls['Nmap'](n_times, cmd, *pos, **kwargs)
CallNmap ==
    /\ called = "none"
    /\ \E n_times \in 0..MaxSamples, cmd \in {"identity", "add"},
          pos \in SeqsUpTo(SampleLists, 2),
          kwargs \in {<<>>} \cup [{"b"} -> SampleLists] :
          /\ called' = "Nmap"
          /\ args' = [n_times |-> n_times, cmd |-> cmd, pos |-> pos,
                      kwargs |-> kwargs]
          /\ rval' = Nmap(n_times, cmd, pos, kwargs).v
          /\ error' = Nmap(n_times, cmd, pos, kwargs).error
    /\ UNCHANGED <<nodes, root, stack, status, invoked, computed, order, memo,
                   scope>>

\* scope._impls['repeat'](n_times, obj)
CallRepeat ==
    /\ called = "none"
    /\ \E n_times \in 0..MaxSamples,
          obj \in {IntVal(i) : i \in 0..MaxInt} \cup {FloatVal(2), NoneVal} :
          /\ called' = "repeat"
          /\ args' = [n_times |-> n_times, obj |-> obj]
          /\ rval' = repeat(n_times, obj).v
          /\ error' = repeat(n_times, obj).error
    /\ UNCHANGED <<nodes, root, stack, status, invoked, computed, order, memo,
                   scope>>

LiftedOpsNext == CallVchoiceSplit \/ CallNmap \/ CallRepeat

LiftedOpsSpec == LiftedOpsInit /\ [][LiftedOpsNext]_vars

\* The choices are drawn among the options: integers of 0 .. n_options - 1.
ChoicesDrawn ==
    \A p \in DOMAIN args.choices.n :
        args.choices.n[p].n \in 0..(args.n_options - 1)

\* C24: for an index list S without repetition and choices drawn among k
\* options, vchoice_split fails when the two lists differ in length and
\* otherwise returns k lists that are pairwise disjoint, whose union is S,
\* where the list of an option holds the indices of its own choices in
\* the order they have in S.
C24_SplitPartitions ==
    (called = "vchoice_split" /\ ChoicesDrawn)
        => LET S == args.idxs.n
               cs == args.choices.n
               k == args.n_options
           IN  IF Len(S) # Len(cs)
               THEN error = "ValueError"
               ELSE /\ error = "none"
                    /\ rval.k = "list"
                    /\ Len(rval.n) = k
                    /\ \A j \in 1..k :
                          /\ Range(rval.n[j].n) =
                                {S[p] : p \in {p \in DOMAIN S : cs[p].n = j - 1}}
                          /\ \A a, b \in DOMAIN rval.n[j].n :
                                a < b => IndexOf(S, rval.n[j].n[a])
                                            < IndexOf(S, rval.n[j].n[b])
                    /\ \A i, j \in 1..k :
                          i # j => Range(rval.n[i].n) \cap Range(rval.n[j].n) = {}
                    /\ UNION {Range(rval.n[j].n) : j \in 1..k} = Range(S)

\* vchoice_split returned for MaxSamples indices, not in increasing order,
\* two of which chose the same option.
C24_TwoIndicesOneOption ==
    /\ called = "vchoice_split"
    /\ ChoicesDrawn
    /\ error = "none"
    /\ Len(args.idxs.n) = MaxSamples
    /\ args.idxs.n[1].n > args.idxs.n[2].n
    /\ args.n_options = MaxOptions
    /\ \E j \in 1..MaxOptions : Len(rval.n[j].n) = 2

\* The positional and keyword arguments of sample nn of a call of Nmap.
SampleArgs(nn) == [ii \in DOMAIN args.pos |-> args.pos[ii].n[nn]]

SampleKwargs(nn) == [kw \in DOMAIN args.kwargs |-> args.kwargs[kw].n[nn]]

\* Every argument of the call of Nmap has one value per sample, and the
\* operation succeeds on the values of every sample.
NmapWellFormed ==
    /\ \A ii \in DOMAIN args.pos : Len(args.pos[ii].n) = args.n_times
    /\ \A kw \in DOMAIN args.kwargs : Len(args.kwargs[kw].n) = args.n_times
    /\ \A nn \in 1..args.n_times :
          call_impl(args.cmd, SampleArgs(nn), SampleKwargs(nn)).error = "none"

\* C25: the lifted form of a non-literal node, Nmap(n_times, cmd, ...),
\* gives for every sample the operation cmd applied to that sample's
\* values of the inputs; the lifted form of a Literal, repeat(n_times,
\* obj), gives the value once per sample.
C25_LiftedPerSample ==
    /\ (called = "Nmap" /\ NmapWellFormed)
          => /\ error = "none"
             /\ rval = ListVal([nn \in 1..args.n_times |->
                            call_impl(args.cmd, SampleArgs(nn),
                                      SampleKwargs(nn)).v])
    /\ called = "repeat"
          => /\ error = "none"
             /\ rval = ListVal([nn \in 1..args.n_times |-> args.obj])

\* What Nmap does compute: keyword arguments make it fail, and without
\* them every sample gets the result of cmd on the whole lists.
C25_NmapOnWholeLists ==
    (called = "Nmap" /\ NmapWellFormed)
        => IF args.kwargs # <<>>
           THEN error = "ValueError"
           ELSE IF call_impl(args.cmd, args.pos, <<>>).error # "none"
                   /\ args.n_times > 0
           THEN error = call_impl(args.cmd, args.pos, <<>>).error
           ELSE /\ error = "none"
                /\ \A nn \in 1..args.n_times :
                      rval.n[nn] = call_impl(args.cmd, args.pos, <<>>).v

\* The half of C25 about Literals, which holds.
C25_LiteralReplicated ==
    called = "repeat"
        => /\ error = "none"
           /\ rval = ListVal([nn \in 1..args.n_times |-> args.obj])

\* ------------------------------------------------------------------------
\* vectorize as an operation
\* ------------------------------------------------------------------------

\* Largest N of a call vectorize(expr, N).
MaxVectorized == 2

\* The nodes that can be built at position i over the inputs 1..i-1 of a
\* graph to vectorize: Literal(v) for small ints, scope.add(x, y),
\* scope.add(x, b=y) and scope.one_of(x, y).
VectorizeChoices(i) ==
    LET L == 1..(i - 1) IN
    {Literal(IntVal(x)) : x \in -1..MaxInt}
    \cup {new_apply("add", <<x, y>>, <<>>, TRUE) : x \in L, y \in L}
    \cup {new_apply("add", <<x>>, << <<"b", y>> >>, TRUE) : x \in L, y \in L}
    \cup {new_apply("one_of", <<x, y>>, <<>>, FALSE) : x \in L, y \in L}

RECURSIVE InitVectorize(_, _)
\* Builds an acyclic graph downwards from the root and leaves it to
\* vectorize.
InitVectorize(g, i) ==
    IF i = 0
    THEN StartGraph(g, Len(g))
    ELSE IF DOMAIN g # {} /\ ~IsUsed(g, i)
    THEN FALSE
    ELSE \E r \in VectorizeChoices(i) :
            \E gg \in {(i :> r) @@ g} : InitVectorize(gg, i - 1)

VectorizeInit == \E n \in 1..MaxNodes : InitVectorize(<<>>, n)

\* The one_of nodes of the graph.
OneOfNodes(g, expr) == {o \in Reachable(g, expr) : g[o].name = "one_of"}

\* rec_eval(vectorize(root, N)) where the generator gives the randint node
\* of each one_of node the integers streams[o]: nodes is the graph after
\* the call, order and memo are idxs_memo and vals_memo, computed holds
\* the outcome of evaluating each node, rval and error those of the node
\* vectorize returned.
CallVectorize ==
    /\ called = "none"
    /\ \E N \in 0..MaxVectorized :
       \E streams \in [OneOfNodes(nodes, root) ->
                          [1..N -> 0..(MaxOptions - 1)]] :
          LET out == vectorize(nodes, root, N)
              by_randint ==
                 [r \in {out.vals_memo[o] : o \in OneOfNodes(nodes, root)} |->
                     streams[CHOOSE o \in OneOfNodes(nodes, root) :
                                out.vals_memo[o] = r]]
              vs == graph_values(out.g, by_randint, <<>>, 1)
          IN  /\ called' = "vectorize"
              /\ args' = [N |-> N, streams |-> streams]
              /\ nodes' = out.g
              /\ order' = out.idxs_memo
              /\ memo' = out.vals_memo
              /\ computed' = vs
              /\ error' = IF out.error # "none" THEN out.error
                          ELSE vs[out.rval].error
              /\ rval' = IF out.error # "none" THEN NoneVal
                         ELSE vs[out.rval].v
    /\ UNCHANGED <<root, stack, status, invoked, scope>>

VectorizeNext == CallVectorize

VectorizeSpec == VectorizeInit /\ [][VectorizeNext]_vars

\* The nodes of the graph vectorize was called on.
Vectorized == DOMAIN memo

\* The choices drawn for the one_of node o: one per index of its index set.
ChoicesOf(o) == SubSeq(args.streams[o], 1, Len(computed[order[o]].v.n))

\* C26: vectorize(root, N) evaluates to one result per sample index
\* 0..N-1, and the lifted value of a one_of node has, for each index of
\* the node's index set, the value that sample has for the option its
\* choice selects (for an option that is a Literal, the Literal's value).
C26_OneResultPerSample ==
    called = "vectorize"
        => /\ error = "none"
           /\ rval.k = "list"
           /\ Len(rval.n) = args.N
           /\ \A o \in Vectorized :
                 nodes[o].name = "one_of"
                    => /\ computed[memo[o]].error = "none"
                       /\ Len(computed[memo[o]].v.n) =
                             Len(computed[order[o]].v.n)
                       /\ \A p \in 1..Len(computed[order[o]].v.n) :
                             LET opt == nodes[o].pos_args[ChoicesOf(o)[p] + 1]
                             IN  nodes[opt].name = "literal"
                                    => computed[memo[o]].v.n[p] =
                                          nodes[opt].obj

\* What the code does for a one_of node: build_idxs records the choices
\* themselves as the lifted value of the node, build_vals then skips the
\* node, and the values of the options are never selected from.
C26_OneOfGivesChoices ==
    called = "vectorize"
        => \A o \in Vectorized :
              nodes[o].name = "one_of"
                 => /\ nodes[memo[o]].name = "randint"
                    /\ computed[memo[o]].error = "none"
                    /\ computed[memo[o]].v =
                          ListVal([p \in 1..Len(ChoicesOf(o)) |->
                                      IntVal(ChoicesOf(o)[p])])

\* ------------------------------------------------------------------------
\* Apply.eval as an operation
\* ------------------------------------------------------------------------

\* The nodes that can be built at position i over the inputs 1..i-1 of a
\* graph without switch or expansion nodes: Literal(v) for small ints and
\* None, scope.Raise(), scope.identity(x), scope.add(x, y) and
\* scope.add(x, b=y).
PlainChoices(i) ==
    LET L == 1..(i - 1) IN
    {Literal(IntVal(x)) : x \in 0..MaxInt}
    \cup {Literal(NoneVal)}
    \cup {new_apply("Raise", <<>>, <<>>, TRUE)}
    \cup {new_apply("identity", <<x>>, <<>>, TRUE) : x \in L}
    \cup {new_apply("add", <<x, y>>, <<>>, TRUE) : x \in L, y \in L}
    \cup {new_apply("add", <<x>>, << <<"b", y>> >>, TRUE) : x \in L, y \in L}

RECURSIVE InitPlain(_, _)
\* Builds an acyclic graph downwards from the root and leaves it to eval.
InitPlain(g, i) ==
    IF i = 0
    THEN StartGraph(g, Len(g))
    ELSE IF DOMAIN g # {} /\ ~IsUsed(g, i)
    THEN FALSE
    ELSE \E r \in PlainChoices(i) :
            \E gg \in {(i :> r) @@ g} : InitPlain(gg, i - 1)

EvalInit == \E n \in 1..MaxNodes : InitPlain(<<>>, n)

\* root.eval(); invoked counts the invocations of each implementation.
CallEval ==
    /\ called = "none"
    /\ called' = "eval"
    /\ invoked' = eval_node(nodes, root).calls
    /\ rval' = eval_node(nodes, root).v
    /\ error' = eval_node(nodes, root).error
    /\ UNCHANGED <<nodes, root, stack, status, computed, order, args, memo,
                   scope>>

EvalNext == CallEval

EvalSpec == EvalInit /\ [][EvalNext]_vars

\* C27: within one top-level call of eval the implementation of every
\* node, a node shared by several consumers included, is invoked at most
\* once.
C27_EvalInvokesOnce ==
    called = "eval" => \A n \in DOMAIN nodes : invoked[n] <= 1

\* The number of input positions, over all nodes, that hold the node n.
Uses(n) ==
    Cardinality({cp \in (DOMAIN nodes) \X (1..2) :
                    /\ cp[2] \in DOMAIN inputs(nodes[cp[1]])
                    /\ inputs(nodes[cp[1]])[cp[2]] = n})

\* What does hold: a Literal has no implementation to invoke, a call that
\* returns has invoked every other node at least once, and in a graph
\* where no node is used twice every node is invoked at most once.
C27_EvalInvokesPerUse ==
    called = "eval"
        => /\ \A n \in DOMAIN nodes :
                 nodes[n].name = "literal" => invoked[n] = 0
           /\ error = "none"
                 => \A n \in DOMAIN nodes :
                       nodes[n].name # "literal" => invoked[n] >= 1
           /\ (\A n \in DOMAIN nodes : Uses(n) <= 1)
                 => \A n \in DOMAIN nodes : invoked[n] <= 1

\* ------------------------------------------------------------------------
\* get_node_by_label as an operation
\* ------------------------------------------------------------------------

\* Largest number of nodes of a labelled graph.
MaxLabelled == 3

LabelKeys == {"name", "type"}

LabelValues == {NameVal("A"), NameVal("B")}

\* The label dictionaries of the nodes: any values for any of the keys.
Labels == UNION {[K -> LabelValues] : K \in SUBSET LabelKeys}

\* The values of a query: a label value, or a list of label values.
QueryValues ==
    LabelValues
    \cup {ListVal(<<>>), ListVal(<<NameVal("A")>>),
          ListVal(<<NameVal("A"), NameVal("B")>>)}

\* The queries: any query values for any of the keys.
Queries == UNION {[K -> QueryValues] : K \in SUBSET LabelKeys}

\* The nodes that can be built at position i over the inputs 1..i-1 of a
\* labelled graph: a Literal, which has no label, and scope.identity(x,
\* _label=l) and scope.add(x, y, _label=l) for any label dictionary l.
LabelledChoices(i) ==
    LET L == 1..(i - 1) IN
    {Labelled(Literal(IntVal(0)), <<>>)}
    \cup {Labelled(new_apply("identity", <<x>>, <<>>, TRUE), l) :
              x \in L, l \in Labels}
    \cup {Labelled(new_apply("add", <<x, y>>, <<>>, TRUE), l) :
              x \in L, y \in L, l \in Labels}

RECURSIVE InitLabelled(_, _)
\* Builds an acyclic labelled graph downwards from the root.
InitLabelled(g, i) ==
    IF i = 0
    THEN StartGraph(g, Len(g))
    ELSE IF DOMAIN g # {} /\ ~IsUsed(g, i)
    THEN FALSE
    ELSE \E r \in LabelledChoices(i) :
            \E gg \in {(i :> r) @@ g} : InitLabelled(gg, i - 1)

LabelInit == \E n \in 1..MaxLabelled : InitLabelled(<<>>, n)

\* root.get_node_by_label(lbl); first is the key the dictionary lbl yields
\* first, which Python leaves to the hash order.
CallGetNodeByLabel ==
    /\ called = "none"
    /\ \E lbl \in Queries :
       \E first \in IF DOMAIN lbl = {} THEN {"none"} ELSE DOMAIN lbl :
          /\ called' = "get_node_by_label"
          /\ args' = [lbl |-> lbl, first |-> first]
          /\ order' = get_node_by_label(nodes, root, lbl, first)
    /\ UNCHANGED <<nodes, root, stack, status, rval, error, invoked, computed,
                   memo, scope>>

LabelNext == CallGetNodeByLabel

LabelSpec == LabelInit /\ [][LabelNext]_vars

\* A node matches a query if for every queried key present on the node
\* the node's value equals the queried value, or is a member of it when
\* the queried value is a list.
Matches(t) == label_matches_every_key(nodes[t].label, args.lbl, args.first)

\* C29: get_node_by_label(query) returns exactly the nodes reachable from
\* the root that match the query, for queries with any number of keys.
C29_ReturnsMatchingNodes ==
    called = "get_node_by_label"
        => /\ Range(order) = {t \in Reachable(nodes, root) : Matches(t)}
           /\ \A a, b \in DOMAIN order : order[a] = order[b] => a = b

\* What the code returns: the reachable nodes that have the first key of
\* the query with a value that equals, or is in, the queried one; nothing
\* for an empty query.  The other keys of the query are not looked at.
C29_FirstKeyDecides ==
    called = "get_node_by_label"
        => /\ order = SelectSeq(dfs(nodes, root),
                LAMBDA t :
                    /\ args.first \in DOMAIN args.lbl
                    /\ args.first \in DOMAIN nodes[t].label
                    /\ IF args.lbl[args.first].k = "list"
                       THEN nodes[t].label[args.first]
                               \in Range(args.lbl[args.first].n)
                       ELSE nodes[t].label[args.first] = args.lbl[args.first])

\* Even read with a missing key as a mismatch, a query with two keys
\* returns nodes that differ from the query in the second key.
C29_EveryKeyCompared ==
    called = "get_node_by_label"
        => \A p \in DOMAIN order :
              \A k \in DOMAIN args.lbl :
                 /\ k \in DOMAIN nodes[order[p]].label
                 /\ IF args.lbl[k].k = "list"
                    THEN nodes[order[p]].label[k] \in Range(args.lbl[k].n)
                    ELSE nodes[order[p]].label[k] = args.lbl[k]

\* ------------------------------------------------------------------------
\* rec_learn as an operation
\* ------------------------------------------------------------------------

\* Largest number of nodes of a graph that is fitted.
MaxLearnNodes == 5

\* numpy.zeros((30, 3)), the data the tests fit on, and numpy.ones((10,
\* 3)), the data they evaluate on afterwards.
X0 == ArrayVal(30, 0)

X1 == ArrayVal(10, Quarter)

\* The nodes of g whose value is an array: the data and the fitting nodes.
ArrayNodes(g) == {x \in DOMAIN g : g[x].name # "literal" \/ g[x].obj.k = "array"}

\* The Literals of g that hold a number.
NumLiterals(g) == {x \in DOMAIN g : g[x].name = "literal" /\ g[x].obj.k = "num"}

\* The nodes that can be added to the graph g: Literals of 0, of 1 and of
\* the data, scope.fn1(x, a=l) and scope.fn2(x, a=l, b=m) with Literals of
\* numbers for the learn_args; initialize_fitter builds the fitter object
\* from the values of these Literals.
LearnChoices(g) ==
    {LearnLiteral(NumVal(0)), LearnLiteral(NumVal(Quarter)), LearnLiteral(X0)}
    \cup {Learning(new_apply("fn1", <<x>>, <<<<"a", l>>>>, FALSE),
                   <<"a">>, "fitter", [a |-> g[l].obj.n]) :
              x \in ArrayNodes(g), l \in NumLiterals(g)}
    \cup {Learning(new_apply("fn2", <<x>>, <<<<"a", l>>, <<"b", m>>>>, FALSE),
                   <<"a", "b">>, "fitter2",
                   [a |-> g[l].obj.n, b |-> g[m].obj.n]) :
              x \in ArrayNodes(g), l \in NumLiterals(g), m \in NumLiterals(g)}

RECURSIVE InitLearn(_, _)
\* Builds a graph of n nodes upwards from its leaves; the last node is
\* the root and reaches every other node.
InitLearn(g, n) ==
    IF Len(g) = n
    THEN Reachable(g, n) = DOMAIN g /\ StartGraph(g, n)
    ELSE \E r \in LearnChoices(g) : InitLearn(Append(g, r), n)

LearnInit == \E n \in 1..MaxLearnNodes : InitLearn(<<>>, n)

\* rec_learn(root)
CallRecLearn ==
    /\ called = "none"
    /\ LET out == rec_learn([g |-> nodes, vals |-> <<>>, fits |-> <<>>,
                            error |-> "none"], root)
       IN  /\ nodes' = out.g
           /\ memo' = out.vals
           /\ order' = out.fits
           /\ error' = out.error
    /\ computed' = nodes
    /\ called' = "rec_learn"
    /\ UNCHANGED <<root, stack, status, rval, invoked, args, scope>>

\* root.replace_inputs([l], [Literal(X1)]) for a data leaf l, followed by
\* rec_eval(root).  replace_inputs visits the clients of l in the order
\* of toposort(root); each client is changed on its own, so any order of
\* the same nodes gives the same graph, and T lists them in dfs order.
CallRecEvalFitted ==
    /\ called = "rec_learn"
    /\ error = "none"
    /\ \E l \in {x \in Reachable(nodes, root) : nodes[x].obj = X0} :
          LET lit == Len(nodes) + 1
              T == dfs(nodes, root)
              g0 == Append(nodes, LearnLiteral(X1))
              I == SelectSeq(T, LAMBDA t : l \in Range(inputs(nodes[t])))
              g1 == replace_in_clients(g0, I, 1, l, lit)
              out == learn_eval(g1, root, <<>>)
          IN  /\ nodes' = g1
              /\ rval' = out.v
              /\ error' = out.error
              /\ args' = [leaf |-> l]
    /\ called' = "rec_eval"
    /\ UNCHANGED <<root, stack, status, invoked, computed, order, memo, scope>>

LearnNext == CallRecLearn \/ CallRecEvalFitted

LearnSpec == LearnInit /\ [][LearnNext]_vars

\* The fitting nodes of the graph rec_learn was called on.
FittingNodes ==
    {n \in Reachable(computed, root) : computed[n].fit_class # "none"}

\* The positions of the log at which node n was fitted.
FitsOf(n) == {p \in DOMAIN order : order[p] = LearnEvent("fit", n)}

RECURSIVE fitted_eval(_, _)
\* The value of a node computed with the constants of the fitter objects
\* in the place of the learn_args.
fitted_eval(g, node) ==
    IF g[node].name = "literal"
    THEN g[node].obj
    ELSE fn_impl(g[node].name,
                 [i \in 1..Len(g[node].pos_args) |->
                     fitted_eval(g, g[node].pos_args[i])],
                 [w \in Range(g[node].learn_args) |->
                     NumVal(g[node].fit_obj[w])]).v

\* Every fit of a node comes after the evaluation of each of its inputs
\* and after the fit of each input that is a fitting node.
FitsAfterInputs ==
    \A p \in DOMAIN order :
        order[p].ev = "fit"
            => \A x \in Range(inputs(computed[order[p].node])) :
                  /\ \E q \in 1..(p - 1) : order[q] = LearnEvent("eval", x)
                  /\ x \in FittingNodes
                         => \E q \in 1..(p - 1) : order[q] = LearnEvent("fit", x)

\* Every learn_arg of every fitting node is a Literal of the value its
\* fitter object has for that learn_arg.
LearnArgsHoldFitted ==
    \A n \in FittingNodes :
        \A w \in Range(nodes[n].learn_args) :
            /\ nodes[named_arg(nodes[n], w)].name = "literal"
            /\ nodes[named_arg(nodes[n], w)].obj = NumVal(nodes[n].fit_obj[w])

\* C28: rec_learn(root) fits every fitting node at most once and only
\* after its inputs have been fitted and evaluated; afterwards every
\* learn_arg of a fitted node is a Literal of the fitted value, and a later
\* rec_eval, also after the data leaf has been replaced, computes with the
\* fitted constants.
C28_LearnArgsFitted ==
    (called \in {"rec_learn", "rec_eval"} /\ error = "none")
        => /\ \A n \in FittingNodes : Cardinality(FitsOf(n)) <= 1
           /\ FitsAfterInputs
           /\ LearnArgsHoldFitted
           /\ called = "rec_eval" => rval = fitted_eval(nodes, root)

\* No fitting node has one Literal for two of its learn_args.
DistinctLearnLiterals ==
    \A n \in FittingNodes :
        \A w, z \in Range(computed[n].learn_args) :
            named_arg(computed[n], w) = named_arg(computed[n], z) => w = z

\* What the code guarantees: every fitting node is fitted exactly once,
\* after its inputs; the learn_args hold the fitted values, and the later
\* rec_eval uses them, if no node has one Literal for two learn_args.
C28_FittedOnceAfterInputs ==
    called \in {"rec_learn", "rec_eval"}
        => /\ error = "none"
           /\ \A n \in FittingNodes : Cardinality(FitsOf(n)) = 1
           /\ FitsAfterInputs
           /\ DistinctLearnLiterals
                  => /\ LearnArgsHoldFitted
                     /\ called = "rec_eval" => rval = fitted_eval(nodes, root)

\* rec_learn(B) has run on the graph of test_fn12 with b = 0, B =
\* fn2(fn1(X0, a=0), a=1, b=0), and rec_eval on the data X1 gives
\* 4 * (1 + 3) + 0.5.
C28_TwoStepsFitted ==
    /\ called = "rec_eval"
    /\ Cardinality(FittingNodes) = 2
    /\ nodes[root].name = "fn2"
    /\ DistinctLearnLiterals
    /\ rval = ArrayVal(10, 16 * Quarter + 2)

\* ------------------------------------------------------------------------
\* rec_eval of a graph rewritten by replace_implicit_stochastic_nodes
\* ------------------------------------------------------------------------

\* Largest number of nodes of a graph with stochastic nodes.
MaxDrawNodes == 4

\* The nodes that can be built at position i over the inputs 1..i-1:
\* Literals of integers, add(x, b=y) and uniform(x, high=y).
DrawChoices(i) ==
    LET L == 1..(i - 1) IN
    {Literal(IntVal(x)) : x \in 0..MaxInt}
    \cup {new_apply("add", <<x>>, << <<"b", y>> >>, TRUE) : x \in L, y \in L}
    \cup {new_apply("uniform", <<x>>, << <<"high", y>> >>, FALSE) :
              x \in L, y \in L}

RECURSIVE InitDraw(_, _)
\* Builds an acyclic graph downwards from the root.
InitDraw(g, i) ==
    IF i = 0
    THEN StartGraph(g, Len(g))
    ELSE IF DOMAIN g # {} /\ ~IsUsed(g, i)
    THEN FALSE
    ELSE \E r \in DrawChoices(i) :
            \E gg \in {(i :> r) @@ g} : InitDraw(gg, i - 1)

DrawInit == \E n \in 1..MaxDrawNodes : InitDraw(<<>>, n)

\* The numbers a generator gives after its seed, one per draw: the k-th
\* call of rng.uniform(low, high) returns low + (high - low) * u[k], and
\* u[k] is 0 or 1 here.
Streams == [1..MaxDrawNodes -> {0, 1}]

\* expr, new_lrng = replace_implicit_stochastic_nodes(expr, rng) for a
\* generator whose seed gives the numbers stream.  args keeps the graph
\* as it was, memo the draw that stands for each stochastic node.
CallRewrite ==
    /\ called = "none"
    /\ \E stream \in Streams :
       LET out == replace_implicit_stochastic_nodes(nodes, root) IN
          /\ called' = "replace_implicit_stochastic_nodes"
          /\ args' = [g |-> nodes, expr |-> root, stream |-> stream]
          /\ nodes' = out.g
          /\ root' = IF out.error = "none" THEN out.expr ELSE root
          /\ error' = out.error
          /\ memo' = out.draws
          /\ invoked' = [x \in DOMAIN out.g |-> 0]
    /\ UNCHANGED <<stack, status, rval, computed, order, scope>>

\* rec_eval(expr) of the rewritten graph, with memo_gc on or off.
CallRecEval ==
    /\ called = "replace_implicit_stochastic_nodes"
    /\ error = "none"
    /\ \E memo_gc \in BOOLEAN :
          stack' = <<NewFrame(nodes, root, FALSE, <<>>,
                              DEFAULT_MAX_PROGRAM_LEN, memo_gc)>>
    /\ status' = "running"
    /\ called' = "rec_eval"
    /\ UNCHANGED <<nodes, root, rval, error, invoked, computed, order, args,
                   memo, scope>>

\* A node other than draw_rng is evaluated.
InvokeOther ==
    /\ CanPop
    /\ nodes[Popped.node].name # "draw_rng"
    /\ Invoke

\* uniform(low, high, rng=None): rng.uniform(low, high), where u is the
\* number the generator gives next.
uniform(args_, kwargs, rng, u) ==
    IF ~BindOk(<<"low", "high">>, args_, kwargs) \/ rng.k # "rng"
    THEN Raised
    ELSE LET low == Bound(<<"low", "high">>, args_, kwargs, 1)
             high == Bound(<<"low", "high">>, args_, kwargs, 2)
         IN  IF low.k = "int" /\ high.k = "int"
             THEN Ret(IntVal(low.n + (high.n - low.n) * u))
             ELSE Raised

\* draw_rng(rng, f_name, *args, **kwargs): draw = scope._impls[f_name](
\* *args, rng=rng, **kwargs); return draw, rng.  The generator is one
\* object that every draw advances; order lists the draw_rng nodes
\* invoked so far, so the next number is the one after Len(order).
draw_rng(args_, kwargs, u) ==
    IF Len(args_) < 2 \/ "rng" \in DOMAIN kwargs
    THEN Raised
    ELSE IF args_[2] # StrVal
    THEN Raised
    ELSE LET draw == uniform(SubSeq(args_, 3, Len(args_)), kwargs,
                             args_[1], u)
         IN  IF draw.t = "raise"
             THEN Raised
             ELSE Ret(ListVal(<<draw.v, args_[1]>>))

\* A draw_rng node whose inputs are all memoized is evaluated.
InvokeDrawRng ==
    /\ CanPop
    /\ ~InMemo(Popped)
    /\ nodes[Popped.node].name = "draw_rng"
    /\ WaitingOn(Popped) = <<>>
    /\ Len(order) < MaxDrawNodes
    /\ LET fr == Popped
           res == draw_rng(ArgsOf(fr), KwargsOf(fr),
                           args.stream[Len(order) + 1])
           sm == set_memo(nodes, fr, fr.node, res.v)
       IN  IF fr.memo_gc /\ ArgIsGarbage(fr)
           THEN Raise("AssertionError")
           ELSE IF res.t = "raise"
           THEN /\ status' = "raised"
                /\ error' = "ImplementationError"
                /\ invoked' = [invoked EXCEPT ![fr.node] = @ + 1]
                /\ stack' = SetTop(Called(fr))
                /\ UNCHANGED <<args, memo, scope, called, order, nodes, root,
                               rval, computed>>
           ELSE /\ stack' = SetTop([Called(fr) EXCEPT !.memo = sm.memo])
                /\ computed' = computed @@ (fr.node :> res.v)
                /\ invoked' = [invoked EXCEPT ![fr.node] = @ + 1]
                /\ order' = Append(order, fr.node)
                /\ UNCHANGED <<args, memo, scope, called, nodes, root, status,
                               rval, error>>

DrawNext ==
    \/ CallRewrite
    \/ CallRecEval
    \/ PopMemoized
    \/ LiteralStep
    \/ PushInputs
    \/ InvokeOther
    \/ InvokeDrawRng
    \/ Return

DrawSpec == DrawInit /\ [][DrawNext]_vars

\* The stochastic nodes of the graph before the rewriting, in dfs order.
DrawsExpected == StochasticInDfsOrder(args.g, args.expr)

\* The draw_rng node that was built for the stochastic node orig.
ObjOf(orig) == nodes[memo[orig]].pos_args[1]

RECURSIVE draw_value(_, _, _, _)
\* The value of a node of the graph g before the rewriting when the k-th
\* stochastic node in dfs order takes the k-th number of the stream.
draw_value(g, node, expected, stream) ==
    IF g[node].name = "literal"
    THEN g[node].obj
    ELSE LET x == draw_value(g, g[node].pos_args[1], expected, stream)
             y == draw_value(g, g[node].named_args[1][2], expected, stream)
         IN  IF g[node].name = "add"
             THEN IntVal(x.n + y.n)
             ELSE IntVal(x.n + (y.n - x.n) * stream[IndexOf(expected, node)])

\* C23: rec_eval of a rewritten graph performs its draws in the dfs order
\* of the stochastic nodes, whatever order the evaluator visits the
\* inputs in, and returns the value these draws give: the draws and the
\* result are a function of the graph and the seed.
C23_DrawsInDfsOrder ==
    called = "rec_eval"
        => /\ status # "raised"
           /\ Len(order) <= Len(DrawsExpected)
           /\ \A p \in DOMAIN order : order[p] = ObjOf(DrawsExpected[p])
           /\ status = "returned"
                  => /\ Len(order) = Len(DrawsExpected)
                     /\ rval = draw_value(args.g, args.expr, DrawsExpected,
                                          args.stream)

\* rec_eval has returned add(u1, b=u2) for two stochastic nodes u1 and
\* u2, whose rewritten inputs it visits last first.
C23_TwoDrawsUnderAdd ==
    /\ called = "rec_eval"
    /\ status = "returned"
    /\ Len(order) = 2
    /\ args.g[args.expr].name = "add"
    /\ args.g[args.g[args.expr].pos_args[1]].name = "uniform"
    /\ args.g[args.g[args.expr].named_args[1][2]].name = "uniform"
    /\ args.g[args.expr].pos_args[1] # args.g[args.expr].named_args[1][2]

\* ------------------------------------------------------------------------
\* rec_eval with and without memo_gc, from a given memo
\* ------------------------------------------------------------------------

\* The memo dictionaries passed to rec_eval: one integer value for any of
\* the nodes of the graph.
InitialMemos(g) ==
    UNION {[S -> {IntVal(x)}] : S \in SUBSET (DOMAIN g), x \in 0..MaxInt}

\* The outcome of a run: how it ended, what it returned or raised, the
\* nodes whose implementation it invoked and whether its memo holds a
\* GarbageCollected entry.
Outcome ==
    [status |-> status, rval |-> rval, error |-> error,
     invoked |-> {n \in DOMAIN invoked : invoked[n] > 0},
     collected |-> \E n \in DOMAIN stack[1].memo :
                      stack[1].memo[n] = GarbageCollected]

\* rec_eval(expr, memo=memo0, max_program_len=c, memo_gc=True) begins; the
\* variable memo keeps memo0 for the second run.
StartPair(g, expr, memo0, max_program_len) ==
    /\ nodes = g
    /\ root = expr
    /\ stack = <<NewFrame(g, expr, FALSE, memo0, max_program_len, TRUE)>>
    /\ status = "running"
    /\ rval = NoneVal
    /\ error = "none"
    /\ invoked = [x \in DOMAIN g |-> 0]
    /\ computed = <<>>
    /\ called = "none"
    /\ order = <<>>
    /\ args = [run |-> 1,
               first |-> [status |-> "none", rval |-> NoneVal,
                          error |-> "none", invoked |-> {},
                          collected |-> FALSE]]
    /\ memo = memo0
    /\ scope = BaseScope

RECURSIVE InitPair(_, _)
\* Builds an acyclic graph downwards from the root, without a Literal of
\* a node, and starts rec_eval on it with memo_gc on: from any memo under
\* the default ceiling, and from the empty memo under the small one.
InitPair(g, i) ==
    IF i = 0
    THEN /\ ~HasExpansion(g)
         /\ \E memo0 \in InitialMemos(g), c \in Ceilings :
               /\ c # DEFAULT_MAX_PROGRAM_LEN => DOMAIN memo0 = {}
               /\ StartPair(g, Len(g), memo0, c)
    ELSE IF DOMAIN g # {} /\ ~IsUsed(g, i)
    THEN FALSE
    ELSE \E r \in NodeChoices(g, i) :
            \E gg \in {(i :> r) @@ g} : InitPair(gg, i - 1)

PairInit == \E n \in 1..MaxNodes : InitPair(<<>>, n)

\* The first run has ended: the same call is made again with
\* memo_gc=False.
Rerun ==
    /\ status \in {"returned", "raised"}
    /\ args.run = 1
    /\ args' = [run |-> 2, first |-> Outcome]
    /\ stack' = <<NewFrame(nodes, root, FALSE, memo,
                           stack[1].max_program_len, FALSE)>>
    /\ status' = "running"
    /\ rval' = NoneVal
    /\ error' = "none"
    /\ invoked' = [x \in DOMAIN nodes |-> 0]
    /\ computed' = <<>>
    /\ UNCHANGED <<nodes, root, called, order, memo, scope>>

PairNext ==
    \/ Runaway
    \/ PopMemoized
    \/ SwitchStep
    \/ LiteralStep
    \/ PushInputs
    \/ Invoke
    \/ Return
    \/ Rerun

PairSpec == PairInit /\ [][PairNext]_vars

\* C30: on an acyclic graph without returned nodes, from any memo,
\* rec_eval with memo_gc on and with memo_gc off end the same way, with
\* the same value or the same error, and invoke the same nodes.
C30_GcChangesNothing ==
    (args.run = 2 /\ status \in {"returned", "raised"})
        => /\ status = args.first.status
           /\ rval = args.first.rval
           /\ error = args.first.error
           /\ {n \in DOMAIN invoked : invoked[n] > 0} = args.first.invoked

\* Both runs have returned for a graph with a switch and a shared node,
\* from a memo that is not empty, and the first run has collected.
C30_BothRunsReturned ==
    /\ args.run = 2
    /\ status = "returned"
    /\ args.first.collected
    /\ DOMAIN memo # {}
    /\ \E n \in Reachable(nodes, root) : nodes[n].name = "switch"
    /\ \E n \in Reachable(nodes, root) :
          Cardinality({c \in Reachable(nodes, root) :
                          n \in Range(inputs(nodes[c]))}) > 1

\* ------------------------------------------------------------------------
\* The registrations of base.py and annotate.py
\* ------------------------------------------------------------------------

\* The methods of the class SymbolTable, and the names __init__ gives an
\* implementation (they are methods as well).
TableMethods ==
    {"dict", "int", "float", "len", "list", "map", "range", "max", "min",
     "getattr", "define", "define_pure", "define_info", "inject", "import_",
     "_new_apply"}

TableBuiltins ==
    {"list", "dict", "range", "len", "int", "float", "map", "max", "min",
     "getattr"}

\* scope = SymbolTable() of base.py, with all of its methods.
NewScope ==
    [methods |-> TableMethods,
     entries |-> <<>>,
     impls |-> [n \in TableBuiltins |-> [module |-> "builtin", name |-> n]]]

\* The calls of scope.define, define_pure and define_info that the body of
\* base.py makes, in the order of the file: the name of the function and
\* the pure flag.
BaseDefines ==
    <<<<"call", FALSE>>, <<"callpipe1", FALSE>>, <<"partial", FALSE>>,
      <<"pos_args", TRUE>>, <<"getitem", TRUE>>, <<"identity", TRUE>>,
      <<"add", TRUE>>, <<"sub", TRUE>>, <<"neg", TRUE>>, <<"mul", TRUE>>,
      <<"div", TRUE>>, <<"floordiv", TRUE>>, <<"eq", TRUE>>,
      <<"gt", TRUE>>, <<"ge", TRUE>>, <<"lt", TRUE>>, <<"le", TRUE>>,
      <<"exp", TRUE>>, <<"log", TRUE>>, <<"pow", TRUE>>, <<"sin", TRUE>>,
      <<"cos", TRUE>>, <<"tan", TRUE>>, <<"sum", TRUE>>, <<"sqrt", TRUE>>,
      <<"minimum", TRUE>>, <<"maximum", TRUE>>, <<"array_union1", TRUE>>,
      <<"array_union", TRUE>>, <<"asarray", TRUE>>, <<"str_join", TRUE>>,
      <<"bincount", TRUE>>, <<"repeat", TRUE>>, <<"call_method", FALSE>>,
      <<"call_method_pure", TRUE>>, <<"copy_call_method_pure", TRUE>>,
      <<"switch", TRUE>>, <<"Raise", TRUE>>, <<"curtime", FALSE>>,
      <<"pdb_settrace", FALSE>>>>

\* The calls the body of annotate.py makes on the scope of base.py: all of
\* them define or define_info, so pure is False.
AnnotateDefines ==
    <<<<"draw_rng", FALSE>>, <<"rng_from_seed", FALSE>>,
      <<"uniform", FALSE>>, <<"randint", FALSE>>,
      <<"vchoice_split", FALSE>>, <<"array_union", FALSE>>,
      <<"repeat", FALSE>>, <<"Nmap", FALSE>>, <<"choice", FALSE>>,
      <<"one_of", FALSE>>, <<"quantized_uniform", FALSE>>,
      <<"log_uniform", FALSE>>>>

\* The names a program registers itself: one that base.py has, one that
\* only annotate.py has and one that neither has.
UserNames == {"add", "uniform", "fn1"}

\* A function of the given module: the object define binds to its name.
FunctionOf(module, name) == [module |-> module, name |-> name]

\* The interpreter begins the body of base.py with a fresh scope.  status
\* is the module whose body runs, root the number of its calls of define
\* made so far, order the names a program has registered itself.
StartupInit ==
    /\ nodes = <<>>
    /\ root = 0
    /\ stack = <<>>
    /\ status = "base.py"
    /\ rval = NoneVal
    /\ error = "none"
    /\ invoked = <<>>
    /\ computed = <<>>
    /\ called = "none"
    /\ order = <<>>
    /\ args = <<>>
    /\ memo = <<>>
    /\ scope = NewScope

\* The next call of define of the module whose body runs.  An exception
\* ends the import; the registrations made before it stay.
ImportStep(module, defines, done) ==
    /\ status = module
    /\ root < Len(defines)
    /\ LET name == defines[root + 1][1]
           out == define(scope, name, FunctionOf(module, name),
                         defines[root + 1][2])
       IN  /\ scope' = out.scope
           /\ error' = out.error
           /\ args' = [name |-> name]
           /\ status' = IF out.error # "none" THEN "raised"
                        ELSE IF root + 1 = Len(defines) THEN done
                        ELSE module
           /\ root' = IF out.error = "none" /\ root + 1 = Len(defines)
                      THEN 0
                      ELSE root + 1
    /\ UNCHANGED <<nodes, stack, rval, invoked, computed, called, order, memo>>

\* import pyll.base
ImportBase == ImportStep("base.py", BaseDefines, "base imported")

\* import pyll.annotate, after base.py
ImportAnnotate ==
    \/ /\ status = "base imported"
       /\ status' = "annotate.py"
       /\ UNCHANGED <<nodes, root, stack, rval, error, invoked, computed,
                      called, order, args, memo, scope>>
    \/ ImportStep("annotate.py", AnnotateDefines, "imported")

\* A program that has imported base.py registers a function of its own
\* before it imports annotate.py.
UserDefine ==
    /\ status = "base imported"
    /\ \E name \in UserNames, pure \in BOOLEAN :
          LET out == define(scope, name, FunctionOf("user", name), pure) IN
             /\ scope' = out.scope
             /\ error' = out.error
             /\ args' = [name |-> name]
             /\ order' = IF out.error = "none" /\ Len(order) < 3
                         THEN Append(order, name)
                         ELSE order
             /\ called' = "define"
    /\ UNCHANGED <<nodes, root, stack, status, rval, invoked, computed, memo>>

StartupNext == ImportBase \/ ImportAnnotate \/ UserDefine

StartupSpec == StartupInit /\ [][StartupNext]_vars

\* The names of the fixed sequence of registrations.
StartupNames ==
    [i \in 1..(Len(BaseDefines) + Len(AnnotateDefines)) |->
        IF i <= Len(BaseDefines)
        THEN BaseDefines[i][1]
        ELSE AnnotateDefines[i - Len(BaseDefines)][1]]

\* C36: the registrations of base.py followed by those of annotate.py use
\* pairwise distinct names, so with no other registration in between the
\* sequence completes without the duplicate-symbol error, and in the end
\* every name of the sequence is bound to its one implementation.
C36_StartupCompletes ==
    called = "none"
        => /\ error = "none"
           /\ status # "raised"
           /\ status = "imported"
                  => \A i \in DOMAIN StartupNames :
                        StartupNames[i] \in DOMAIN scope.impls

\* What the code does: base.py completes and binds each of its names to
\* its own function; annotate.py registers its first five names and its
\* sixth call of define raises at array_union, which base.py has bound;
\* repeat is the second name both files have.  The import never completes.
C36_AnnotateRaisesAtArrayUnion ==
    /\ status # "imported"
    /\ status \in {"base imported", "annotate.py", "raised"}
           => \A i \in DOMAIN BaseDefines :
                 /\ BaseDefines[i][1] \in DOMAIN scope.impls
                 /\ scope.impls[BaseDefines[i][1]]
                        = FunctionOf("base.py", BaseDefines[i][1])
    /\ (called = "none" /\ status = "raised")
           => /\ args.name = "array_union"
              /\ root = 6
              /\ scope.impls["array_union"]
                     = FunctionOf("base.py", "array_union")
              /\ error = "ValueError: Cannot override existing symbol"
    /\ {n \in Range(StartupNames) :
           Cardinality({i \in DOMAIN StartupNames : StartupNames[i] = n}) > 1}
          = {"array_union", "repeat"}

(***************************************************************************)
(* clone_merge and the nodes of its argument (base.py:833-867).            *)
(***************************************************************************)

ResultNodes == IF rval.k = "apply" THEN Reachable(nodes, rval.n) ELSE {}

\* C34: the graph returned by clone_merge(root) with an empty memo consists
\* of newly created nodes only (no node reachable from the returned root is a
\* node of the input graph) and the input graph is left unchanged.  The code
\* represents a pure duplicate by the earlier node of the input graph
\* (new_ii = node_jj), so the first half is violated, already with the
\* default merge_literals=False.
C34_ResultIsFresh ==
    (called = "clone_merge" /\ ~args.merge_literals)
        => /\ error = "none"
           /\ ResultNodes \cap Originals = {}

\* What the code does guarantee: clone_merge never edits a node of its
\* argument, and an original node enters the result only as the stand-in of
\* a later pure duplicate (together with everything below that stand-in).
C34_InputUnchanged ==
    [][CallCloneMerge
          => /\ \A n \in DOMAIN nodes : nodes'[n] = nodes[n]
             /\ Reachable(nodes', root') = Reachable(nodes, root)]_vars

C34_OriginalsOnlyAsStandIns ==
    called = "clone_merge"
        => \A n \in ResultNodes \cap Originals :
              \E b \in Originals \ {n} :
                  /\ nodes[b].pure
                  /\ n \in Reachable(nodes, memo[b])
                  /\ memo[b] \in Originals

(***************************************************************************)
(* clone and the pure flag (base.py:426-452, 688-689, 821-830).            *)
(* clone_from_inputs rebuilds an Apply without passing pure, so the        *)
(* constructor default pure=False applies; Literal.clone_from_inputs       *)
(* builds a Literal, whose constructor passes pure=True.                   *)
(***************************************************************************)

NotSubstituted == Originals \ DOMAIN args.memo

\* C33: clone preserves purity: for every node n of dfs(root) that is not
\* substituted, the clone of n has the same operation name and the same pure
\* flag as n (so that clone_merge treats a clone like the graph itself).
C33_ClonePreservesPurity ==
    called = "clone"
        => \A c \in NotSubstituted :
              (error = "none" /\ c \in DOMAIN memo)
                  => /\ nodes[memo[c]].name = nodes[c].name
                     /\ nodes[memo[c]].pure = nodes[c].pure

\* What the code does: the name is preserved, and the clone is pure exactly
\* when it is a literal.
C33_CloneOfApplyIsImpure ==
    called = "clone"
        => \A c \in NotSubstituted :
              (error = "none" /\ c \in DOMAIN memo)
                  => /\ nodes[memo[c]].name = nodes[c].name
                     /\ nodes[memo[c]].pure = (nodes[c].name = "literal")

(***************************************************************************)
(* rec_eval and the caller's memo (base.py:999-1002, 1010-1028).           *)
(*                                                                         *)
(* A dict is an object: the variable memo holds the caller's dict, and the *)
(* frame's field memo holds the contents of the dict the run stores into.  *)
(* The frame's field memo_obj says which object that is: "copy" for the    *)
(* new dict made by dict(memo), "caller" if it were the caller's dict      *)
(* itself, in which case every store of the run is a store into the        *)
(* caller's dict.                                                          *)
(***************************************************************************)

\* A faulty variant of rec_eval_memo: the run keeps the caller's dict.
rec_eval_memo_shared(memo0) == [obj |-> "caller", entries |-> memo0]

\* "memo = dict(memo)" for a memo that is not None.
rec_eval_memo(memo0) == [obj |-> "copy", entries |-> memo0]

RECURSIVE InitMemo(_, _)
InitMemo(g, i) ==
    IF i = 0
    THEN /\ ~HasExpansion(g)
         /\ nodes = g
         /\ root = Len(g)
         /\ memo \in InitialMemos(g)
         /\ stack = <<>>
         /\ status = "idle"
         /\ rval = NoneVal
         /\ error = "none"
         /\ invoked = [x \in DOMAIN g |-> 0]
         /\ computed = <<>>
         /\ called = "none"
         /\ order = <<>>
         /\ args = <<>>
         /\ scope = BaseScope
    ELSE IF DOMAIN g # {} /\ ~IsUsed(g, i)
    THEN FALSE
    ELSE \E r \in NodeChoices(g, i) :
            \E gg \in {(i :> r) @@ g} : InitMemo(gg, i - 1)

MemoInit == \E n \in 1..MaxNodes : InitMemo(<<>>, n)

\* rec_eval(root, memo=memo, max_program_len=c, memo_gc=memo_gc) up to the
\* creation of the work stack.
CallRecEvalMemo ==
    /\ status = "idle"
    /\ \E memo_gc \in BOOLEAN, c \in Ceilings :
          /\ c # DEFAULT_MAX_PROGRAM_LEN => DOMAIN memo = {}
          /\ stack' = <<NewFrame(nodes, root, FALSE,
                                 rec_eval_memo(memo).entries, c, memo_gc)
                        @@ [memo_obj |-> rec_eval_memo(memo).obj]>>
          /\ args' = [memo |-> memo, memo_gc |-> memo_gc]
    /\ status' = "running"
    /\ called' = "rec_eval"
    /\ UNCHANGED <<nodes, root, rval, error, invoked, computed, order, memo,
                   scope>>

MemoNext ==
    \/ CallRecEvalMemo
    \/ Runaway
    \/ PopMemoized
    \/ SwitchStep
    \/ LiteralStep
    \/ PushInputs
    \/ Invoke
    \/ Return

MemoSpec == MemoInit /\ [][MemoNext]_vars

\* The contents of the caller's dict.
CallerMemo ==
    IF stack # <<>> /\ stack[1].memo_obj = "caller"
    THEN stack[1].memo
    ELSE memo

C32_RunFailedAfterStore ==
    /\ called = "rec_eval"
    /\ status = "raised"
    /\ DOMAIN args.memo # {}
    /\ \E n \in DOMAIN stack[1].memo : n \notin DOMAIN args.memo

(***************************************************************************)
(* The index sets of build_idxs (annotate.py:167-186).                     *)
(***************************************************************************)

\* The evaluated index set of node x of the vectorized graph, as a list
\* and as a set.
IdxsList(x) == computed[order[x]].v.n

IdxsSet(x) == {IdxsList(x)[p].n : p \in DOMAIN IdxsList(x)}

\* The indices the consumer c demands of its input x: its whole index set,
\* or for a one_of node the indices whose choice selects an option that
\* is x.
Demand(c, x) ==
    IF nodes[c].name = "one_of"
    THEN {IdxsList(c)[p].n :
             p \in {q \in DOMAIN IdxsList(c) :
                       nodes[c].pos_args[ChoicesOf(c)[q] + 1] = x}}
    ELSE IdxsSet(c)

ConsumersOf(x) ==
    {c \in Reachable(nodes, root) : x \in Range(inputs(nodes[c]))}

\* The integers drawn for every one_of node are among its options, as
\* randint(n_options) gives them.
ChoicesInRange ==
    \A o \in OneOfNodes(nodes, root) :
        \A p \in DOMAIN args.streams[o] :
            args.streams[o][p] < Len(nodes[o].pos_args)

\* C31: after build_idxs on an acyclic graph every node of dfs(root) has
\* an index set (none was missing when the node was processed), every
\* index set is a duplicate-free ascending subset of 0..N-1, and the index
\* set of every node other than the root is the union of the index sets
\* demanded by all of its consumers.
C31_IdxsAreUnionOfDemands ==
    (called = "vectorize" /\ ChoicesInRange)
        => /\ error # "KeyError"
           /\ \A x \in Reachable(nodes, root) :
                 /\ x \in DOMAIN order
                 /\ computed[order[x]].error = "none"
                 /\ computed[order[x]].v.k = "list"
                 /\ \A p \in DOMAIN IdxsList(x) :
                       /\ IdxsList(x)[p].k = "int"
                       /\ IdxsList(x)[p].n \in 0..(args.N - 1)
                       /\ p > 1 => IdxsList(x)[p - 1].n < IdxsList(x)[p].n
                 /\ x = root => IdxsSet(x) = 0..(args.N - 1)
                 /\ x # root
                       => IdxsSet(x) = UNION {Demand(c, x) : c \in ConsumersOf(x)}

\* vectorize(one_of(x, add(x, y)), 2) with the choices 0 and 1: x is needed
\* by the one_of node for sample 0 and by the add node for sample 1, and
\* its index set is the array_union of both; y is needed for sample 1 only.
C31_UnionOfTwoDemands ==
    /\ called = "vectorize"
    /\ args.N = 2
    /\ nodes[root].name = "one_of"
    /\ args.streams[root] = <<0, 1>>
    /\ \E x, y, a \in Reachable(nodes, root) :
          /\ nodes[root].pos_args = <<x, a>>
          /\ nodes[a].name = "add"
          /\ inputs(nodes[a]) = <<x, y>>
          /\ x # y
          /\ nodes[order[x]].name = "array_union"
          /\ IdxsSet(a) = {1}
          /\ IdxsSet(y) = {1}
          /\ IdxsSet(x) = {0, 1}

(***************************************************************************)
(* switch nodes in a graph rewritten by replace_implicit_stochastic_nodes  *)
(* (annotate.py:122-142, base.py:1043-1062).                               *)
(***************************************************************************)

\* Largest graph given to replace_implicit_stochastic_nodes here.
MaxLazyNodes == 5

\* The nodes that can be built at position i over the inputs 1..i-1:
\* Literals of integers, add(x, b=x), uniform(x, high=x) and
\* switch(p, a, b).
LazyChoices(i) ==
    LET L == 1..(i - 1) IN
    {Literal(IntVal(x)) : x \in 0..MaxInt}
    \cup {new_apply("add", <<x>>, << <<"b", x>> >>, TRUE) : x \in L}
    \cup {new_apply("uniform", <<x>>, << <<"high", x>> >>, FALSE) : x \in L}
    \cup {new_apply("switch", p, <<>>, TRUE) :
              p \in {q \in L \X L \X L : Cardinality(Range(q)) = 3}}

RECURSIVE InitLazy(_, _)
\* Builds an acyclic graph downwards from the root.
InitLazy(g, i) ==
    IF i = 0
    THEN StartGraph(g, Len(g))
    ELSE IF DOMAIN g # {} /\ ~IsUsed(g, i)
    THEN FALSE
    ELSE \E r \in LazyChoices(i) :
            \E gg \in {(i :> r) @@ g} : InitLazy(gg, i - 1)

LazyInit == \E n \in 1..MaxLazyNodes : InitLazy(<<>>, n)

\* expr, new_lrng = replace_implicit_stochastic_nodes(expr, rng) for a
\* generator whose numbers are all 0.  args keeps the graph as it was,
\* memo the draw that stands for each stochastic node.
CallRewriteSeeded ==
    /\ called = "none"
    /\ LET out == replace_implicit_stochastic_nodes(nodes, root) IN
          /\ called' = "replace_implicit_stochastic_nodes"
          /\ args' = [g |-> nodes, expr |-> root,
                      stream |-> [k \in 1..MaxDrawNodes |-> 0]]
          /\ nodes' = out.g
          /\ root' = IF out.error = "none" THEN out.expr ELSE root
          /\ error' = out.error
          /\ memo' = out.draws
          /\ invoked' = [x \in DOMAIN out.g |-> 0]
    /\ UNCHANGED <<stack, status, rval, computed, order, scope>>

LazyNext ==
    \/ CallRewriteSeeded
    \/ CallRecEval
    \/ PopMemoized
    \/ SwitchStep
    \/ LiteralStep
    \/ PushInputs
    \/ InvokeOther
    \/ InvokeDrawRng
    \/ Return

LazySpec == LazyInit /\ [][LazyNext]_vars

\* The inputs of node n of g that an evaluation of n needs: for a switch
\* node whose position is a Literal naming one of its options, the
\* position and that option; for any other node all inputs.
NeededInputs(g, n) ==
    LET pos == g[g[n].pos_args[1]] IN
    IF /\ g[n].name = "switch"
       /\ pos.name = "literal"
       /\ pos.obj.k = "int"
       /\ pos.obj.n \in 0..(Len(g[n].pos_args) - 2)
    THEN {g[n].pos_args[1], g[n].pos_args[pos.obj.n + 2]}
    ELSE Range(inputs(g[n]))

RECURSIVE NeededFrom(_, _)
NeededFrom(g, S) ==
    LET T == S \cup UNION {NeededInputs(g, n) : n \in S}
    IN  IF T = S THEN S ELSE NeededFrom(g, T)

\* The nodes of the graph as it was given that are reachable from the root
\* only through a non-selected option of a switch node.
Unselected ==
    Reachable(args.g, args.expr) \ NeededFrom(args.g, {args.expr})

\* C35: when rec_eval runs on the root returned by
\* replace_implicit_stochastic_nodes, a node that is reachable from the
\* original root only through a non-selected option of a switch node
\* (the arguments of a stochastic node inside that option included) is
\* never invoked.
C35_UnselectedNeverInvoked ==
    called = "rec_eval" => \A n \in Unselected : invoked[n] = 0

\* Position of node n in dfs of the graph as it was given.
DfsPos(n) ==
    CHOOSE p \in DOMAIN dfs(args.g, args.expr) :
        dfs(args.g, args.expr)[p] = n

\* What the code does: the generator state of each draw is an output of
\* the draw before it in dfs order, so a needed stochastic node pulls in
\* every stochastic node before it, selected or not, and with it that
\* node's arguments.  A node outside the selected part is invoked only as
\* (part of) an argument of such an earlier stochastic node.
C35_InvokedThroughGeneratorChain ==
    called = "rec_eval"
        => \A n \in Unselected :
              invoked[n] > 0
                 => \E s, t \in StochasticNodes(args.g, args.expr) :
                       /\ DfsPos(s) < DfsPos(t)
                       /\ t \in NeededFrom(args.g, {args.expr})
                       /\ n \in NeededFrom(args.g, {s}) \ {s}

====
